---- MODULE Spec2Model ----
(***************************************************************************)
(* A model of the z.ai2api_deno translation server: the model mapping      *)
(* cache (model_mapper.ts), model discovery (model_fetcher.ts), the        *)
(* OpenAI routes (openai.ts) and the tool extraction utilities (tools.ts). *)
(***************************************************************************)
EXTENDS Integers, Sequences, FiniteSets, TLC

VARIABLES
  now,              \* the wall clock, what Date.now() returns
  dynamicMappings,  \* ModelMappingManager.dynamicMappings, an ordered object
  lastUpdateTime,   \* ModelMappingManager.lastUpdateTime
  call,             \* the manager method a caller has invoked and not yet run
  config,           \* the settings read from the environment at start-up
  sample,           \* a text handed to the tool extraction utilities
  extraction,       \* what extractToolInvocations made of the sample
  incoming,         \* a call of the message preprocessor: its arguments
  outgoing,         \* the message lists the preprocessor has returned
  loop,             \* the locals of a character scan of tools.ts in progress
  models,           \* the GET /v1/models requests in progress
  chat              \* the POST /v1/chat/completions requests in progress

vars ==
  <<now, dynamicMappings, lastUpdateTime, call, config, sample, extraction,
    incoming, outgoing, loop, models, chat>>

cacheVars == <<dynamicMappings, lastUpdateTime>>

messageVars == <<incoming, outgoing>>

textVars == <<sample, extraction, messageVars, loop>>

serverVars == <<models, chat>>

(***************************************************************************)
(* Bounds of the model.                                                    *)
(***************************************************************************)
MaxPeriods == 1   \* update intervals the clock can move past the first instant
MaxListLen == 2   \* length of an observed model list

(***************************************************************************)
(* JavaScript objects.  An object is the sequence of its own enumerable    *)
(* properties <<key, value>> in insertion order; a property that is not    *)
(* an own property is looked up on Object.prototype.                       *)
(***************************************************************************)
ObjectPrototypeKeys ==
  {"constructor", "toString", "toLocaleString", "valueOf", "hasOwnProperty",
   "isPrototypeOf", "propertyIsEnumerable"}

Null == [type |-> "null"]

Undefined == [type |-> "undefined"]

\* The value of an inherited Object.prototype member: a function object,
\* truthy, with none of the properties of a ModelMapping.
Inherited(k) == [type |-> "function", name |-> k]

Range(s) == {s[i] : i \in DOMAIN s}

OwnKeys(o) == [i \in DOMAIN o |-> o[i][1]]

HasOwn(o, k) == \E i \in DOMAIN o : o[i][1] = k

OwnGet(o, k) == o[CHOOSE i \in DOMAIN o : o[i][1] = k][2]

\* o[k]
Get(o, k) ==
  IF HasOwn(o, k) THEN OwnGet(o, k)
  ELSE IF k \in ObjectPrototypeKeys THEN Inherited(k)
  ELSE Undefined

\* o[k] = v : an existing own property keeps its place
Put(o, k, v) ==
  IF HasOwn(o, k)
  THEN [i \in DOMAIN o |-> IF o[i][1] = k THEN <<k, v>> ELSE o[i]]
  ELSE Append(o, <<k, v>>)

RECURSIVE PutAll(_, _)
PutAll(o, props) ==
  IF props = <<>> THEN o
  ELSE PutAll(Put(o, Head(props)[1], Head(props)[2]), Tail(props))

\* { ...a, ...b }
Spread(a, b) == PutAll(PutAll(<<>>, a), b)

Truthy(v) == v # Null /\ v # Undefined

(***************************************************************************)
(* config.* model ids, the keys of BUILTIN_MODEL_MAPPINGS.                 *)
(***************************************************************************)
PRIMARY_MODEL == "GLM-4.5"
THINKING_MODEL == "GLM-4.5-Thinking"
SEARCH_MODEL == "GLM-4.5-Search"
AIR_MODEL == "GLM-4.5-Air"
PRIMARY_MODEL_NEW == "GLM-4.6"
THINKING_MODEL_NEW == "GLM-4.6-Thinking"
SEARCH_MODEL_NEW == "GLM-4.6-Search"

BuiltinMapping(key, upId, upName, feats, descr) ==
  [displayName |-> key, upstreamModelId |-> upId, upstreamModelName |-> upName,
   features |-> feats, ownedBy |-> "z.ai", isBuiltin |-> TRUE,
   description |-> descr]

WithMcp(m, servers) ==
  [f \in DOMAIN m \cup {"mcpServers"} |->
     IF f = "mcpServers" THEN servers ELSE m[f]]

BUILTIN_MODEL_MAPPINGS ==
  << <<PRIMARY_MODEL,
       BuiltinMapping(PRIMARY_MODEL, "0727-360B-API", "GLM-4.5", {}, "GLM-4.5 base")>>,
     <<THINKING_MODEL,
       BuiltinMapping(THINKING_MODEL, "0727-360B-API", "GLM-4.5-Thinking",
                      {"enable_thinking"}, "GLM-4.5 thinking")>>,
     <<SEARCH_MODEL,
       WithMcp(BuiltinMapping(SEARCH_MODEL, "0727-360B-API", "GLM-4.5-Search",
                              {"web_search", "auto_web_search"}, "GLM-4.5 search"),
               <<"deep-web-search">>)>>,
     <<AIR_MODEL,
       BuiltinMapping(AIR_MODEL, "0727-106B-API", "GLM-4.5-Air", {}, "GLM-4.5 air")>>,
     <<PRIMARY_MODEL_NEW,
       BuiltinMapping(PRIMARY_MODEL_NEW, "GLM-4-6-API-V1", "GLM-4.6", {}, "GLM-4.6 base")>>,
     <<THINKING_MODEL_NEW,
       BuiltinMapping(THINKING_MODEL_NEW, "GLM-4-6-API-V1", "GLM-4.6-Thinking",
                      {"enable_thinking"}, "GLM-4.6 thinking")>>,
     <<SEARCH_MODEL_NEW,
       WithMcp(BuiltinMapping(SEARCH_MODEL_NEW, "GLM-4-6-API-V1", "GLM-4.6-Search",
                              {"web_search", "auto_web_search"}, "GLM-4.6 search"),
               <<"deep-web-search">>)>> >>

BuiltinKeys == Range(OwnKeys(BUILTIN_MODEL_MAPPINGS))

UPDATE_INTERVAL == 5 * 60 * 1000

(***************************************************************************)
(* ModelMappingManager                                                     *)
(***************************************************************************)
\* getMappings(): { ...BUILTIN_MODEL_MAPPINGS, ...this.dynamicMappings }
GetMappings(dyn) == Spread(BUILTIN_MODEL_MAPPINGS, dyn)

\* mapping.f || dflt for a Partial<ModelMapping>: an absent property and the
\* empty string are falsy
PartialOr(mapping, f, dflt) ==
  IF f \in DOMAIN mapping /\ mapping[f] # "" THEN mapping[f] ELSE dflt

\* The fullMapping that addDynamicMapping builds
FullMapping(modelId, mapping) ==
  [displayName |-> PartialOr(mapping, "displayName", modelId),
   upstreamModelId |-> PartialOr(mapping, "upstreamModelId", modelId),
   upstreamModelName |-> PartialOr(mapping, "upstreamModelName", modelId),
   features |-> IF "features" \in DOMAIN mapping THEN mapping.features ELSE {},
   mcpServers |-> IF "mcpServers" \in DOMAIN mapping THEN mapping.mcpServers ELSE <<>>,
   ownedBy |-> PartialOr(mapping, "ownedBy", "z.ai"),
   isBuiltin |-> FALSE,
   description |-> PartialOr(mapping, "description", "dynamic: " \o modelId)]

\* addDynamicMapping(modelId, mapping)
AddDynamicMapping(dyn, modelId, mapping) ==
  Put(dyn, modelId, FullMapping(modelId, mapping))

\* model.name || model.display_name || modelId
ModelName(model) ==
  IF "name" \in DOMAIN model /\ model.name # "" THEN model.name
  ELSE IF "display_name" \in DOMAIN model /\ model.display_name # ""
       THEN model.display_name
  ELSE model.id

\* mappedUpstreamIds: the upstreamModelId of every builtin mapping
MappedUpstreamIds ==
  {BUILTIN_MODEL_MAPPINGS[i][2].upstreamModelId : i \in DOMAIN BUILTIN_MODEL_MAPPINGS}

\* The two `continue` tests of the loop of updateFromZAIModels:
\* mappedUpstreamIds.has(modelId), then BUILTIN_MODEL_MAPPINGS[modelId]
SkipsBuiltinUpstream_Only(modelId) == modelId \in MappedUpstreamIds

SkipModel(modelId) ==
  \/ modelId \in MappedUpstreamIds
  \/ Truthy(Get(BUILTIN_MODEL_MAPPINGS, modelId))

\* The Partial<ModelMapping> the loop hands to addDynamicMapping
DiscoveredMapping(model) ==
  [displayName |-> ModelName(model),
   upstreamModelId |-> model.id,
   upstreamModelName |-> ModelName(model),
   ownedBy |-> IF "owned_by" \in DOMAIN model THEN model.owned_by ELSE "",
   description |-> "Z.AI: " \o (IF "name" \in DOMAIN model /\ model.name # ""
                                 THEN model.name ELSE model.id)]

\* The loop of updateFromZAIModels over the models not yet visited
RECURSIVE FillDynamicMappings(_, _)
FillDynamicMappings(dyn, zaiModels) ==
  IF zaiModels = <<>> THEN dyn
  ELSE LET model == Head(zaiModels)
       IN  FillDynamicMappings(
             IF SkipModel(model.id) THEN dyn
             ELSE AddDynamicMapping(dyn, model.id, DiscoveredMapping(model)),
             Tail(zaiModels))

\* now - this.lastUpdateTime < this.UPDATE_INTERVAL
Throttled_OffByOne(last, t) == t - last <= UPDATE_INTERVAL

Throttled(last, t) == t - last < UPDATE_INTERVAL

\* updateFromZAIModels with the loop stopped after the first model
UpdateFromZAIModels_PartlyRefilled(dyn, last, t, zaiModels) ==
  IF Throttled(last, t) \/ \E i \in DOMAIN zaiModels : zaiModels[i] = Null
  THEN [dynamicMappings |-> dyn, lastUpdateTime |-> last,
        threw |-> ~Throttled(last, t)]
  ELSE [dynamicMappings |-> FillDynamicMappings(<<>>, SubSeq(zaiModels, 1, 1)),
        lastUpdateTime |-> t, threw |-> FALSE]

\* updateFromZAIModels(zaiModels) run at time t: the cache it leaves, and
\* whether it threw.  model.id of a null element throws in the forEach that
\* fills upstreamModelMap, before dynamicMappings is cleared.
UpdateFromZAIModels(dyn, last, t, zaiModels) ==
  IF Throttled(last, t)
  THEN [dynamicMappings |-> dyn, lastUpdateTime |-> last, threw |-> FALSE]
  ELSE IF \E i \in DOMAIN zaiModels : zaiModels[i] = Null
  THEN [dynamicMappings |-> dyn, lastUpdateTime |-> last, threw |-> TRUE]
  ELSE [dynamicMappings |-> FillDynamicMappings(<<>>, zaiModels),
        lastUpdateTime |-> t, threw |-> FALSE]

\* The lookup with the primary model standing in for an id that is no key
GetMappingByModelId_Fallback(dyn, modelId) ==
  LET m == Get(GetMappings(dyn), modelId)
  IN  IF Truthy(m) THEN m ELSE Get(GetMappings(dyn), PRIMARY_MODEL)

\* getMappingByModelId(modelId): allMappings[modelId] || null
GetMappingByModelId(dyn, modelId) ==
  LET m == Get(GetMappings(dyn), modelId)
  IN  IF Truthy(m) THEN m ELSE Null

\* getUpstreamConfig(requestedModelId); a property the mapping lacks is
\* undefined in the result, that is absent from the record
GetUpstreamConfig(dyn, requestedModelId) ==
  LET mapping == GetMappingByModelId(dyn, requestedModelId)
      copied == {"upstreamModelId", "upstreamModelName", "features"} \cap DOMAIN mapping
  IN  IF mapping = Null THEN Null
      ELSE [f \in copied \cup {"mcpServers"} |->
              IF f = "mcpServers"
              THEN (IF "mcpServers" \in DOMAIN mapping THEN mapping.mcpServers ELSE <<>>)
              ELSE mapping[f]]

\* mappingsToZAIModels(), without the creation times
MappingsToZAIModels(dyn) ==
  LET all == GetMappings(dyn)
  IN  [i \in DOMAIN all |->
         [id |-> all[i][1],
          name |-> all[i][2].displayName,
          owned_by |-> all[i][2].ownedBy,
          isBuiltin |-> all[i][2].isBuiltin,
          upstreamModelId |-> all[i][2].upstreamModelId,
          upstreamModelName |-> all[i][2].upstreamModelName]]

(***************************************************************************)
(* The clock.  Date.now() is wall-clock time, far above UPDATE_INTERVAL;   *)
(* instants are counted from a base that keeps the first call unthrottled, *)
(* and sit on and just before the interval boundaries.                     *)
(***************************************************************************)
Instants ==
  {UPDATE_INTERVAL * k - d : k \in 1..(MaxPeriods + 1), d \in {0, 1}}
    \ {UPDATE_INTERVAL - 1}

Tick ==
  /\ now' \in Instants \ {now}
  /\ UNCHANGED <<dynamicMappings, lastUpdateTime, call, config, textVars, serverVars>>

(***************************************************************************)
(* Callers of the ModelMappingManager methods.                             *)
(***************************************************************************)
ZAIModels ==
  {[id |-> "glm-x", name |-> "GLM X", owned_by |-> "zhipu"],
   [id |-> "glm-y", display_name |-> "GLM Y"],
   [id |-> PRIMARY_MODEL, name |-> "impostor"],
   [id |-> "0727-360B-API", name |-> "GLM-4.5"],
   [id |-> "constructor"]}

ZAIModelLists == UNION {[1..k -> ZAIModels] : k \in 0..MaxListLen}

Idle == [phase |-> "idle"]

CanInvoke == call.phase \in {"idle", "returned"}

InvokeUpdate(zaiModels) ==
  /\ CanInvoke
  /\ call' = [phase |-> "invoked", op |-> "updateFromZAIModels", zaiModels |-> zaiModels]
  /\ UNCHANGED <<now, dynamicMappings, lastUpdateTime, config, textVars, serverVars>>

RunUpdate ==
  /\ call.phase = "invoked" /\ call.op = "updateFromZAIModels"
  /\ LET after == UpdateFromZAIModels(dynamicMappings, lastUpdateTime, now, call.zaiModels)
     IN  /\ dynamicMappings' = after.dynamicMappings
         /\ lastUpdateTime' = after.lastUpdateTime
  /\ call' = [call EXCEPT !.phase = "returned"]
  /\ UNCHANGED <<now, config, textVars, serverVars>>

\* The manager as constructed
NewManager ==
  /\ dynamicMappings = <<>>
  /\ lastUpdateTime = 0

\* No text under extraction
NoMessages ==
  /\ incoming = <<>>
  /\ outgoing = <<>>

\* No character scan in progress
NoLoop == loop = <<>>

NoText ==
  /\ sample = <<>>
  /\ extraction = <<>>
  /\ NoMessages
  /\ NoLoop

\* No HTTP request in progress
NoRequests ==
  /\ models = <<>>
  /\ chat = <<>>

InitCache ==
  /\ now \in Instants
  /\ NewManager
  /\ call = Idle
  /\ config = <<>>
  /\ NoText
  /\ NoRequests

NextRefresh ==
  \/ Tick
  \/ \E zaiModels \in ZAIModelLists : InvokeUpdate(zaiModels)
  \/ RunUpdate

SpecRefresh == InitCache /\ [][NextRefresh]_vars

\* Direct calls of the two other mutators of the manager
AddMappingInputs ==
  {<<>>, [upstreamModelId |-> "0727-106B-API", features |-> {"web_search"}]}

AddCall(modelId, mapping) ==
  /\ CanInvoke
  /\ dynamicMappings' = AddDynamicMapping(dynamicMappings, modelId, mapping)
  /\ call' = [phase |-> "returned", op |-> "addDynamicMapping", modelId |-> modelId]
  /\ UNCHANGED <<now, lastUpdateTime, config, textVars, serverVars>>

\* clearDynamicMappings()
ClearCall ==
  /\ CanInvoke
  /\ dynamicMappings' = <<>>
  /\ lastUpdateTime' = 0
  /\ call' = [phase |-> "returned", op |-> "clearDynamicMappings"]
  /\ UNCHANGED <<now, config, textVars, serverVars>>

NextManager ==
  \/ NextRefresh
  \/ \E modelId \in {PRIMARY_MODEL, "glm-x"}, mapping \in AddMappingInputs :
        AddCall(modelId, mapping)
  \/ ClearCall

SpecManager == InitCache /\ [][NextManager]_vars

(***************************************************************************)
(* Claims about the model mapping cache                                    *)
(***************************************************************************)
\* The configuration a builtin mapping stands for
BuiltinConfig(k) ==
  LET b == OwnGet(BUILTIN_MODEL_MAPPINGS, k)
  IN  [upstreamModelId |-> b.upstreamModelId,
       upstreamModelName |-> b.upstreamModelName,
       features |-> b.features,
       mcpServers |-> IF "mcpServers" \in DOMAIN b THEN b.mcpServers ELSE <<>>]

\* A step in which updateFromZAIModels runs
IsUpdateStep ==
  /\ call.phase = "invoked" /\ call.op = "updateFromZAIModels"
  /\ call'.phase = "returned"

KeySet(o) == Range(OwnKeys(o))

ListIds(zaiModels) == {zaiModels[i].id : i \in DOMAIN zaiModels}

\* C1: in every state reached by calls of updateFromZAIModels, at any times
\* and with any observed lists, getUpstreamConfig of a builtin key returns
\* that builtin mapping's upstream id, upstream name, features and MCP list.
C1_BuiltinResolveExact ==
  \A k \in BuiltinKeys : GetUpstreamConfig(dynamicMappings, k) = BuiltinConfig(k)

\* A refresh that replaced the dynamic set from a list holding a builtin key
\* and a discoverable model has returned.
C1_Witness ==
  /\ call.phase = "returned" /\ lastUpdateTime = now
  /\ \E i \in DOMAIN call.zaiModels : call.zaiModels[i].id \in BuiltinKeys
  /\ dynamicMappings # <<>>

\* C2: a refresh that runs less than UPDATE_INTERVAL after the last
\* replacement leaves dynamicMappings and lastUpdateTime unchanged; one that
\* runs at exactly UPDATE_INTERVAL or later replaces and records its time;
\* no other step touches either, so lastUpdateTime is the time of the last
\* replacement.
C2_ThrottleWithinTTL ==
  [][ /\ IsUpdateStep =>
           IF now - lastUpdateTime < UPDATE_INTERVAL
           THEN UNCHANGED cacheVars
           ELSE lastUpdateTime' = now
      /\ ~IsUpdateStep => UNCHANGED cacheVars ]_vars

\* A refresh with a list that would change the dynamic set has returned
\* inside the window of an earlier replacement, and changed nothing.
C2_Witness ==
  /\ call.phase = "returned"
  /\ lastUpdateTime > 0 /\ now > lastUpdateTime
  /\ now - lastUpdateTime < UPDATE_INTERVAL
  /\ dynamicMappings # FillDynamicMappings(<<>>, call.zaiModels)

\* C3: after an unthrottled refresh the keys of dynamicMappings are exactly
\* the observed ids that are neither a builtin key nor a builtin upstream
\* id, and every entry is non-builtin with upstreamModelId equal to its key.
C3_ExactDynamicKeys ==
  [][ (IsUpdateStep /\ ~(now - lastUpdateTime < UPDATE_INTERVAL)) =>
        /\ KeySet(dynamicMappings') =
             ListIds(call.zaiModels) \ (BuiltinKeys \cup MappedUpstreamIds)
        /\ \A i \in DOMAIN dynamicMappings' :
             /\ dynamicMappings'[i][2].isBuiltin = FALSE
             /\ dynamicMappings'[i][2].upstreamModelId = dynamicMappings'[i][1]
    ]_vars

\* C4: whenever a builtin key is also a key of dynamicMappings, lookup and
\* listing return the builtin entry for it, and the listing holds it once.
C4_BuiltinWinsAtLookup ==
  \A k \in BuiltinKeys :
    HasOwn(dynamicMappings, k) =>
      /\ GetMappingByModelId(dynamicMappings, k) = OwnGet(BUILTIN_MODEL_MAPPINGS, k)
      /\ GetUpstreamConfig(dynamicMappings, k) = BuiltinConfig(k)
      /\ LET listed == MappingsToZAIModels(dynamicMappings)
         IN  /\ Cardinality({i \in DOMAIN listed : listed[i].id = k}) = 1
             /\ \A i \in DOMAIN listed : listed[i].id = k => listed[i].isBuiltin

(***************************************************************************)
(* Text and JSON.  A text is a sequence of characters; a run of letters,   *)
(* digits and underscores (a word, a number, a literal) is one element,    *)
(* as is the triple backtick of a code fence.  FENCE stands for the three  *)
(* backticks, CALL_FUNCTION and PARAMS for the two Chinese words of        *)
(* FUNCTION_CALL_PATTERN, FW_COLON for the full-width colon.               *)
(***************************************************************************)
FENCE == "'''"
CALL_FUNCTION == "call-function-zh"
PARAMS == "params-zh"
FW_COLON == "fullwidth-colon"

IsWs(c) == c \in {" ", "\n"}

NumberAtoms == {"0", "1", "2"}

\* [\w\-\.]: what a word of the natural-language pattern is made of
NotWordAtoms ==
  {"{", "}", "[", "]", ":", ",", "\"", "\\", " ", "\n", FENCE,
   CALL_FUNCTION, PARAMS, FW_COLON}

IsWord(c) == c \notin NotWordAtoms

\* JSON values as JSON.parse builds them; Null and Undefined are as above
JBool(b) == [type |-> "boolean", b |-> b]

JNum(a) == [type |-> "number", n |-> a]

JStr(chars) == [type |-> "string", s |-> chars]

JArr(items) == [type |-> "array", items |-> items]

JObj(props) == [type |-> "object", props |-> props]

RECURSIVE SkipWs(_, _)
SkipWs(s, i) == IF i <= Len(s) /\ IsWs(s[i]) THEN SkipWs(s, i + 1) ELSE i

Fail == [ok |-> FALSE]

Ok(v, p) == [ok |-> TRUE, val |-> v, pos |-> p]

RECURSIVE ParseString(_, _, _)
RECURSIVE ParseValue(_, _)
RECURSIVE ParseMembers(_, _, _)
RECURSIVE ParseElements(_, _, _)

\* The characters of a string literal, from after its opening quote
ParseString(s, i, acc) ==
  IF i > Len(s) THEN Fail
  ELSE IF s[i] = "\"" THEN Ok(acc, i + 1)
  ELSE IF s[i] = "\\"
       THEN IF i + 1 <= Len(s) /\ s[i + 1] \in {"\"", "\\"}
            THEN ParseString(s, i + 2, Append(acc, s[i + 1]))
            ELSE IF i + 1 <= Len(s) /\ s[i + 1] = "n"
            THEN ParseString(s, i + 2, Append(acc, "\n"))
            ELSE Fail
  ELSE IF s[i] = "\n" THEN Fail
  ELSE ParseString(s, i + 1, Append(acc, s[i]))

ParseValue(s, i) ==
  LET j == SkipWs(s, i)
  IN  IF j > Len(s) THEN Fail
      ELSE CASE s[j] = "{" -> ParseMembers(s, j + 1, <<>>)
             [] s[j] = "[" -> ParseElements(s, j + 1, <<>>)
             [] s[j] = "\"" ->
                  LET r == ParseString(s, j + 1, <<>>)
                  IN  IF r.ok THEN Ok(JStr(r.val), r.pos) ELSE Fail
             [] s[j] = "true" -> Ok(JBool(TRUE), j + 1)
             [] s[j] = "false" -> Ok(JBool(FALSE), j + 1)
             [] s[j] = "null" -> Ok(Null, j + 1)
             [] s[j] \in NumberAtoms -> Ok(JNum(s[j]), j + 1)
             [] OTHER -> Fail

\* The members of an object, from after "{" or after a ","
ParseMembers(s, i, acc) ==
  LET j == SkipWs(s, i)
  IN  IF j > Len(s) THEN Fail
      ELSE IF s[j] = "}" THEN (IF acc = <<>> THEN Ok(JObj(acc), j + 1) ELSE Fail)
      ELSE IF s[j] # "\"" THEN Fail
      ELSE LET k == ParseString(s, j + 1, <<>>)
           IN  IF ~k.ok THEN Fail
               ELSE LET c == SkipWs(s, k.pos)
                    IN  IF c > Len(s) \/ s[c] # ":" THEN Fail
                        ELSE LET v == ParseValue(s, c + 1)
                             IN  IF ~v.ok THEN Fail
                                 ELSE LET d == SkipWs(s, v.pos)
                                          acc2 == Put(acc, k.val, v.val)
                                      IN  IF d > Len(s) THEN Fail
                                          ELSE IF s[d] = "," THEN ParseMembers(s, d + 1, acc2)
                                          ELSE IF s[d] = "}" THEN Ok(JObj(acc2), d + 1)
                                          ELSE Fail

\* The elements of an array, from after "[" or after a ","
ParseElements(s, i, acc) ==
  LET j == SkipWs(s, i)
  IN  IF j > Len(s) THEN Fail
      ELSE IF s[j] = "]" THEN (IF acc = <<>> THEN Ok(JArr(acc), j + 1) ELSE Fail)
      ELSE LET v == ParseValue(s, j)
           IN  IF ~v.ok THEN Fail
               ELSE LET d == SkipWs(s, v.pos)
                        acc2 == Append(acc, v.val)
                    IN  IF d > Len(s) THEN Fail
                        ELSE IF s[d] = "," THEN ParseElements(s, d + 1, acc2)
                        ELSE IF s[d] = "]" THEN Ok(JArr(acc2), d + 1)
                        ELSE Fail

\* JSON.parse(s): ok is FALSE where it throws a SyntaxError
JSONParse(s) ==
  LET End(r) ==
        IF r.ok /\ SkipWs(s, r.pos) > Len(s) THEN [ok |-> TRUE, val |-> r.val] ELSE Fail
  IN  End(ParseValue(s, 1))

EscapeChar(c) ==
  IF c = "\"" THEN <<"\\", "\"">>
  ELSE IF c = "\\" THEN <<"\\", "\\">>
  ELSE IF c = "\n" THEN <<"\\", "n">>
  ELSE <<c>>

RECURSIVE Escape(_)
Escape(chars) ==
  IF chars = <<>> THEN <<>> ELSE EscapeChar(Head(chars)) \o Escape(Tail(chars))

Quoted(chars) == <<"\"">> \o Escape(chars) \o <<"\"">>

\* The text of a JSON value, with sp after each ":" and ","
RECURSIVE Stringify(_, _)
RECURSIVE StringifyProps(_, _)
RECURSIVE StringifyItems(_, _)
Stringify(v, sp) ==
  CASE v.type = "null" -> <<"null">>
    [] v.type = "boolean" -> IF v.b THEN <<"true">> ELSE <<"false">>
    [] v.type = "number" -> <<v.n>>
    [] v.type = "string" -> Quoted(v.s)
    [] v.type = "array" -> <<"[">> \o StringifyItems(v.items, sp) \o <<"]">>
    [] v.type = "object" -> <<"{">> \o StringifyProps(v.props, sp) \o <<"}">>

StringifyProps(props, sp) ==
  IF props = <<>> THEN <<>>
  ELSE Quoted(Head(props)[1]) \o <<":">> \o sp \o Stringify(Head(props)[2], sp)
         \o (IF Len(props) > 1 THEN <<",">> \o sp \o StringifyProps(Tail(props), sp)
             ELSE <<>>)

StringifyItems(items, sp) ==
  IF items = <<>> THEN <<>>
  ELSE Stringify(Head(items), sp)
         \o (IF Len(items) > 1 THEN <<",">> \o sp \o StringifyItems(Tail(items), sp)
             ELSE <<>>)

\* JSON.stringify(v)
JSONStringify(v) == Stringify(v, <<>>)

\* v[name] for a value that is neither null nor undefined
Prop(v, name) ==
  IF v.type = "object" /\ HasOwn(v.props, name) THEN OwnGet(v.props, name)
  ELSE Undefined

\* Truthiness of a JSON value
JTruthy(v) ==
  CASE v.type \in {"null", "undefined"} -> FALSE
    [] v.type = "boolean" -> v.b
    [] v.type = "number" -> v.n # "0"
    [] v.type = "string" -> v.s # <<>>
    [] OTHER -> TRUE

(***************************************************************************)
(* extractToolInvocations (tools.ts).  Its outcome is a list of calls,     *)
(* null, or an exception that leaves the function.                         *)
(***************************************************************************)
NotFound == [kind |-> "null"]

Calls(items) == [kind |-> "calls", calls |-> items]

Thrown == [kind |-> "throw"]

Min(a, b) == IF a < b THEN a ELSE b

Least(S) == CHOOSE x \in S : \A y \in S : x <= y

Greatest(S) == CHOOSE x \in S : \A y \in S : y <= x

K(word) == <<word>>

SetArguments(tc, func, args) ==
  JObj(Put(tc.props, K("function"), JObj(Put(func.props, K("arguments"), args))))

\* The body of "for (const tc of toolCalls)" with the arguments left as parsed
NormalizeEntry_KeepsParsed(tc) ==
  IF tc.type = "null" THEN Fail ELSE [ok |-> TRUE, val |-> tc]

\* The body of "for (const tc of toolCalls)": ok is FALSE where tc.function
\* throws, val is tc after the assignment to func.arguments
NormalizeEntry(tc) ==
  IF tc.type = "null" THEN Fail
  ELSE LET func == Prop(tc, K("function"))
           args == Prop(func, K("arguments"))
       IN  IF JTruthy(func) /\ JTruthy(args) /\ args.type # "string"
           THEN [ok |-> TRUE, val |-> SetArguments(tc, func, JStr(JSONStringify(args)))]
           ELSE [ok |-> TRUE, val |-> tc]

\* JSON.parse, .tool_calls, the Array.isArray test and the loop, inside one
\* try: NotFound where the block is left without a return
TryToolCalls(jsonStr) ==
  LET Loop(done) ==
        IF \A i \in DOMAIN done : done[i].ok
        THEN Calls([i \in DOMAIN done |-> done[i].val])
        ELSE NotFound
      Return(toolCalls) ==
        IF JTruthy(toolCalls) /\ toolCalls.type = "array"
        THEN Loop([i \in DOMAIN toolCalls.items |-> NormalizeEntry(toolCalls.items[i])])
        ELSE NotFound
      Try(parsed) ==
        IF parsed.ok THEN Return(Prop(parsed.val, K("tool_calls"))) ELSE NotFound
  IN  Try(JSONParse(jsonStr))

\* "}" at q, then \s*, then the closing fence
ClosesFence(s, q) ==
  /\ s[q] = "}"
  /\ LET e == SkipWs(s, q + 1) IN e <= Len(s) /\ s[e] = FENCE

\* TOOL_CALL_FENCE_PATTERN tried at position i: the group is s[from..to]
FenceMatchAt(s, i) ==
  IF i + 1 <= Len(s) /\ s[i] = FENCE /\ s[i + 1] = "json"
  THEN LET j == SkipWs(s, i + 2)
           closers == {q \in (j + 1)..Len(s) : ClosesFence(s, q)}
       IN  IF j <= Len(s) /\ s[j] = "{" /\ closers # {}
           THEN [ok |-> TRUE, from |-> j, to |-> Least(closers),
                 end |-> SkipWs(s, Least(closers) + 1) + 1]
           ELSE Fail
  ELSE Fail

\* [...s.matchAll(TOOL_CALL_FENCE_PATTERN)], each match by its group 1: the
\* search resumes after a match, and one position on where there is none
RECURSIVE FenceMatches(_, _)
FenceMatches(s, i) ==
  LET starts == {x \in i..Len(s) : FenceMatchAt(s, x).ok}
  IN  IF starts = {} THEN <<>>
      ELSE LET m == FenceMatchAt(s, Least(starts))
           IN  <<SubSeq(s, m.from, m.to)>> \o FenceMatches(s, m.end)

\* "if (...) return toolCalls": what an attempt found, or else what follows it
OrElse(found, next) == IF found.kind = "calls" THEN found ELSE next

\* Attempt 1
RECURSIVE FromJsonBlocks(_)
FromJsonBlocks(jsonBlocks) ==
  IF jsonBlocks = <<>> THEN NotFound
  ELSE OrElse(TryToolCalls(Head(jsonBlocks)), FromJsonBlocks(Tail(jsonBlocks)))

\* One turn of the inner while with the braces of string literals counted
ScanStep_CountsQuotedBraces(st, c) ==
  IF st.escapeNext THEN [st EXCEPT !.escapeNext = FALSE]
  ELSE IF c = "\\" THEN [st EXCEPT !.escapeNext = TRUE]
  ELSE IF c = "\"" THEN [st EXCEPT !.inString = ~@]
  ELSE IF c = "{" THEN [st EXCEPT !.braceCount = @ + 1]
  ELSE IF c = "}" THEN [st EXCEPT !.braceCount = @ - 1]
  ELSE st

\* One turn of the inner while with the backslash an ordinary character
ScanStep_NoEscape(st, c) ==
  IF c = "\"" THEN [st EXCEPT !.inString = ~@]
  ELSE IF ~st.inString /\ c = "{" THEN [st EXCEPT !.braceCount = @ + 1]
  ELSE IF ~st.inString /\ c = "}" THEN [st EXCEPT !.braceCount = @ - 1]
  ELSE st

\* One turn of the inner while of attempt 2 on the character c
ScanStep(st, c) ==
  IF st.escapeNext THEN [st EXCEPT !.escapeNext = FALSE]
  ELSE IF c = "\\" THEN [st EXCEPT !.escapeNext = TRUE]
  ELSE IF c = "\"" THEN [st EXCEPT !.inString = ~@]
  ELSE IF ~st.inString /\ c = "{" THEN [st EXCEPT !.braceCount = @ + 1]
  ELSE IF ~st.inString /\ c = "}" THEN [st EXCEPT !.braceCount = @ - 1]
  ELSE st

\* The inner while of attempt 2 over the positions a..b (positions count from
\* 1), one half of them after the other; st.j is the next position to read
RECURSIVE BraceScan(_, _, _, _)
BraceScan(s, a, b, st) ==
  IF a > b \/ st.braceCount = 0 THEN st
  ELSE IF a = b THEN [ScanStep(st, s[a]) EXCEPT !.j = a + 1]
  ELSE LET mid == (a + b) \div 2
           left == BraceScan(s, a, mid, st)
       IN  BraceScan(s, mid + 1, b, left)

\* The body of the outer while of attempt 2 at a "{" at position i
InlineObjectAt(s, i) ==
  LET scan == BraceScan(s, i + 1, Len(s), [j |-> i + 1, braceCount |-> 1,
                                           inString |-> FALSE, escapeNext |-> FALSE])
  IN  IF scan.braceCount = 0 THEN TryToolCalls(SubSeq(s, i, scan.j - 1)) ELSE NotFound

\* Attempt 2: the outer while returns at the first "{" whose object carries
\* tool calls
FromInlineObjects(s) ==
  LET found == {i \in 1..Len(s) : s[i] = "{" /\ InlineObjectAt(s, i).kind = "calls"}
  IN  IF found = {} THEN NotFound ELSE InlineObjectAt(s, Least(found))

IsColon(c) == c \in {":", FW_COLON}

\* FUNCTION_CALL_PATTERN from the keyword at c on: 0, or the position after
\* the match
ArgumentsEnd(s, c) ==
  IF c + 1 <= Len(s) /\ s[c] \in {PARAMS, "arguments"} /\ IsColon(s[c + 1])
  THEN LET d == SkipWs(s, c + 2)
           closers == {q \in (d + 1)..Len(s) : s[q] = "}"}
       IN  IF d <= Len(s) /\ s[d] = "{" /\ closers # {} THEN Least(closers) + 1 ELSE 0
  ELSE 0

\* FUNCTION_CALL_PATTERN tried at position i: 0, or the position after the
\* match; the name takes as many characters as still let the rest match
FunctionCallEnd(s, i) ==
  IF i <= Len(s) /\ s[i] = CALL_FUNCTION
  THEN LET a == SkipWs(s, i + 1)
       IN  IF a <= Len(s) /\ IsColon(s[a])
           THEN LET b == SkipWs(s, a + 1)
                    names == {k \in b..Len(s) :
                                /\ \A x \in b..k : IsWord(s[x])
                                /\ ArgumentsEnd(s, SkipWs(s, k + 1)) # 0}
                IN  IF names # {} THEN ArgumentsEnd(s, SkipWs(s, Greatest(names) + 1))
                    ELSE 0
           ELSE 0
  ELSE 0

\* s.match(FUNCTION_CALL_PATTERN): with the g flag, the whole text of every
\* match in turn and no groups; the empty list stands for null
RECURSIVE FunctionCallMatches(_, _)
FunctionCallMatches(s, i) ==
  LET starts == {x \in i..Len(s) : FunctionCallEnd(s, x) # 0}
  IN  IF starts = {} THEN <<>>
      ELSE LET b == Least(starts)
               e == FunctionCallEnd(s, b)
           IN  <<SubSeq(s, b, e - 1)>> \o FunctionCallMatches(s, e)

RECURSIVE TrimStart(_)
TrimStart(s) == IF s # <<>> /\ IsWs(Head(s)) THEN TrimStart(Tail(s)) ELSE s

RECURSIVE TrimEnd(_)
TrimEnd(s) ==
  IF s # <<>> /\ IsWs(s[Len(s)]) THEN TrimEnd(SubSeq(s, 1, Len(s) - 1)) ELSE s

Trim(s) == TrimEnd(TrimStart(s))

\* Attempt 3: naturalLangMatch[1] and [2] are the second and third match and
\* undefined when there are fewer; .trim() of undefined throws outside the try.
\* The id is call_ followed by Date.now() * 1000000.
FromNaturalLanguage(s) ==
  LET naturalLangMatch == FunctionCallMatches(s, 1)
  IN  IF naturalLangMatch = <<>> THEN NotFound
      ELSE IF Len(naturalLangMatch) < 3 THEN Thrown
      ELSE LET functionName == Trim(naturalLangMatch[2])
               argumentsStr == Trim(naturalLangMatch[3])
           IN  IF JSONParse(argumentsStr).ok
               THEN Calls(<<JObj(<<
                      <<K("id"), JStr(<<"call_", "Date.now()*1000000">>)>>,
                      <<K("type"), JStr(K("function"))>>,
                      <<K("function"), JObj(<<
                          <<K("name"), JStr(functionName)>>,
                          <<K("arguments"), JStr(argumentsStr)>> >>)>> >>)>>)
               ELSE NotFound

\* The three attempts with the brace scan before the fenced blocks
ExtractToolInvocations_InlineFirst(text, scanLimit) ==
  IF text = <<>> THEN NotFound
  ELSE LET scannableText == SubSeq(text, 1, Min(scanLimit, Len(text)))
       IN  OrElse(FromInlineObjects(scannableText),
                  OrElse(FromJsonBlocks(FenceMatches(scannableText, 1)),
                         FromNaturalLanguage(scannableText)))

ExtractToolInvocations(text, scanLimit) ==
  IF text = <<>> THEN NotFound
  ELSE LET scannableText == SubSeq(text, 1, Min(scanLimit, Len(text)))
       IN  OrElse(FromJsonBlocks(FenceMatches(scannableText, 1)),
                  OrElse(FromInlineObjects(scannableText),
                         FromNaturalLanguage(scannableText)))

(***************************************************************************)
(* removeToolJsonContent (tools.ts).                                       *)
(***************************************************************************)
\* The test with tool_calls required to be an array, as the extraction has it
InToolCalls_ArrayOnly(parsed) ==
  /\ parsed.ok /\ parsed.val.type = "object"
  /\ Prop(parsed.val, K("tool_calls")).type = "array"

\* JSON.parse(jsonContent) and "tool_calls" in the parsed value, inside one
\* try: FALSE where the text does not parse or the value is not an object
InToolCalls(parsed) ==
  parsed.ok /\ parsed.val.type = "object" /\ HasOwn(parsed.val.props, K("tool_calls"))

\* removeToolCallBlock(match, jsonContent)
RemoveToolCallBlock(match, jsonContent) ==
  IF InToolCalls(JSONParse(jsonContent)) THEN <<>> ELSE match

\* Step 1, text.replace(TOOL_CALL_FENCE_PATTERN, removeToolCallBlock), from
\* position i on: every match is replaced, the text between matches is kept
RECURSIVE ReplaceFenced(_, _)
ReplaceFenced(s, i) ==
  LET Replace(b, m) ==
        SubSeq(s, i, b - 1)
          \o RemoveToolCallBlock(SubSeq(s, b, m.end - 1), SubSeq(s, m.from, m.to))
          \o ReplaceFenced(s, m.end)
      From(starts) ==
        IF starts = {} THEN SubSeq(s, i, Len(s))
        ELSE Replace(Least(starts), FenceMatchAt(s, Least(starts)))
  IN  From({x \in i..Len(s) : FenceMatchAt(s, x).ok})

\* The inner while of step 2 from the "{" at position i
ScanFrom(s, i) ==
  BraceScan(s, i + 1, Len(s),
            [j |-> i + 1, braceCount |-> 1, inString |-> FALSE, escapeNext |-> FALSE])

\* Step 2 at position i: the "{" there opens a balanced text that parses to
\* an object with tool_calls, which the loop skips
SkipsAt(s, i, scan) ==
  /\ scan.braceCount = 0
  /\ InToolCalls(JSONParse(SubSeq(s, i, scan.j - 1)))

\* Step 2, the outer while from position i on: what it pushes to result
RECURSIVE KeepInline(_, _)
KeepInline(s, i) ==
  LET Body(scan) ==
        IF SkipsAt(s, i, scan) THEN KeepInline(s, scan.j)
        ELSE <<s[i]>> \o KeepInline(s, i + 1)
      From(braces) ==
        IF braces = {} THEN SubSeq(s, i, Len(s))
        ELSE SubSeq(s, i, Least(braces) - 1) \o KeepInline(s, Least(braces))
  IN  IF i > Len(s) THEN <<>>
      ELSE IF s[i] = "{" THEN Body(ScanFrom(s, i))
      ELSE From({x \in i..Len(s) : s[x] = "{"})

RemoveToolJsonContent(text) == Trim(KeepInline(ReplaceFenced(text, 1), 1))

(***************************************************************************)
(* config (config.ts): the settings the modelled code reads.               *)
(***************************************************************************)
MaxCalls == 2   \* entries of a tool_calls array in a sample text

ScanLimits == {12, 400}

Configs ==
  [TOOL_SUPPORT : BOOLEAN, SKIP_AUTH_TOKEN : BOOLEAN, SCAN_LIMIT : ScanLimits]

(***************************************************************************)
(* Sample texts: what the upstream model may write as its answer.  A       *)
(* sample is a JSON document rendered compactly or spaced, inside a json   *)
(* fence or inline, between two pieces of prose.                           *)
(***************************************************************************)
ToolCall(args) ==
  JObj(<< <<K("function"),
            JObj(<< <<K("name"), JStr(K("f"))>>, <<K("arguments"), args>> >>)>> >>)

ObjectArguments == JObj(<< <<K("a"), JNum("1")>> >>)

\* The text {"a":1}
EncodedArguments == <<"{", "\"", "a", "\"", ":", "1", "}">>

ArgumentValues ==
  {ObjectArguments, JObj(<<>>), JArr(<<JNum("1"), JStr(K("x"))>>),
   JStr(EncodedArguments), JStr(<<>>), JStr(<<"}">>), JStr(<<"}", FENCE>>),
   JNum("2"), JNum("0"),
   JBool(TRUE), JBool(FALSE), Null}

ToolCallEntries ==
  {ToolCall(args) : args \in ArgumentValues}
    \cup {JObj(<< <<K("function"), JObj(<< <<K("name"), JStr(K("g"))>> >>)>> >>),
          JObj(<< <<K("id"), JStr(K("x"))>> >>),
          Null}

ToolCallDocs ==
  {JObj(<< <<K("tool_calls"), JArr(entries)>> >>) :
     entries \in UNION {[1..n -> ToolCallEntries] : n \in 0..MaxCalls}}

OtherDocs ==
  {JObj(<< <<K("tool_calls"), JStr(K("x"))>> >>),
   JObj(<< <<K("a"), JNum("1")>> >>)}

Proses ==
  {[pre |-> <<>>, post |-> <<>>],
   [pre |-> <<"Sure", ".", "\n">>, post |-> <<"\n", "Done", ".">>]}

Layouts ==
  {[wrap |-> wrap, sp |-> sp, pre |-> prose.pre, post |-> prose.post] :
     wrap \in {"fenced", "inline"}, sp \in {<<>>, <<" ">>}, prose \in Proses}

Fenced(body) == <<FENCE, "json", "\n">> \o body \o <<"\n", FENCE>>

Render(doc, layout) ==
  LET body == Stringify(doc, layout.sp)
  IN  layout.pre \o (IF layout.wrap = "fenced" THEN Fenced(body) ELSE body)
        \o layout.post

\* One JSON document in prose
JsonSamples ==
  {[doc |-> doc, layout |-> layout, text |-> Render(doc, layout)] :
     doc \in ToolCallDocs \cup OtherDocs, layout \in Layouts}

\* The phrase of FUNCTION_CALL_PATTERN: the call word, a colon, the name, the
\* arguments word, a colon, the arguments
Phrase(form, name, arguments) ==
  <<CALL_FUNCTION, form.colon>> \o form.sp \o name \o <<" ", form.keyword, form.colon>>
    \o form.sp \o arguments

PhraseForms ==
  {[colon |-> ":", keyword |-> PARAMS, sp |-> <<" ">>],
   [colon |-> FW_COLON, keyword |-> "arguments", sp |-> <<>>]}

PhraseNames == {<<"f">>, <<"get", "-", "x", ".", "y">>}

\* The arguments of a phrase: {"a":1}, {}, an object in an object, and text
\* that is not JSON
PhraseArguments ==
  {EncodedArguments, <<"{", "}">>,
   <<"{", "\"", "a", "\"", ":", "{", "\"", "b", "\"", ":", "1", "}", "}">>,
   <<"{", "a", "}">>}

MaxPhrases == 3   \* phrases of the natural-language pattern in a sample text

RECURSIVE Repeated(_, _)
Repeated(phrase, n) ==
  IF n = 0 THEN <<>> ELSE phrase \o <<"\n">> \o Repeated(phrase, n - 1)

\* The same phrase zero to MaxPhrases times, a line each, in prose
NaturalSamples ==
  {[doc |-> Undefined,
    layout |-> [wrap |-> "natural", sp |-> form.sp, pre |-> prose.pre,
                post |-> prose.post],
    form |-> form, name |-> name, arguments |-> arguments, count |-> n,
    text |-> prose.pre \o Repeated(Phrase(form, name, arguments), n) \o prose.post] :
     form \in PhraseForms, name \in PhraseNames, arguments \in PhraseArguments,
     n \in 0..MaxPhrases, prose \in Proses}

\* The documents of a text that holds two candidates: calls of f and of g, a
\* null entry, no entry, a string argument with a brace and a fence
MixedDocs ==
  {JObj(<< <<K("tool_calls"), JArr(<<ToolCall(ObjectArguments)>>)>> >>),
   JObj(<< <<K("tool_calls"),
             JArr(<<JObj(<< <<K("function"), JObj(<< <<K("name"), JStr(K("g"))>> >>)>> >>)>>)>> >>),
   JObj(<< <<K("tool_calls"), JArr(<<ToolCall(JStr(<<"}", FENCE>>))>>)>> >>),
   JObj(<< <<K("tool_calls"), JArr(<<Null>>)>> >>),
   JObj(<< <<K("tool_calls"), JArr(<<>>)>> >>)}

\* A candidate of one of the three strategies
Pieces ==
  {[kind |-> wrap, doc |-> doc,
    text |-> IF wrap = "fenced" THEN Fenced(Stringify(doc, <<>>))
             ELSE Stringify(doc, <<>>)] :
     wrap \in {"fenced", "inline"}, doc \in MixedDocs}
    \cup {[kind |-> "phrase", doc |-> Undefined,
           text |-> Repeated(Phrase(form, <<"h">>, EncodedArguments), n)] :
            form \in {f \in PhraseForms : f.colon = ":"}, n \in {1, MaxPhrases}}

\* Two candidates, one after the other, in prose
MixedSamples ==
  {[doc |-> Undefined,
    layout |-> [wrap |-> "mixed", sp |-> <<>>, pre |-> prose.pre, post |-> prose.post],
    pieces |-> <<first, second>>,
    text |-> prose.pre \o first.text \o <<"\n">> \o second.text \o prose.post] :
     first \in Pieces, second \in Pieces, prose \in Proses}

Samples == JsonSamples \cup NaturalSamples \cup MixedSamples

InitExtract ==
  /\ now \in {UPDATE_INTERVAL}
  /\ NewManager
  /\ call = Idle
  /\ config \in {c \in Configs : c.TOOL_SUPPORT /\ ~c.SKIP_AUTH_TOKEN}
  /\ sample \in Samples
  /\ extraction = <<>>
  /\ NoMessages
  /\ NoLoop
  /\ NoRequests

\* extractToolInvocations(sample.text)
Extract ==
  /\ extraction = <<>>
  /\ extraction' = <<ExtractToolInvocations(sample.text, config.SCAN_LIMIT)>>
  /\ UNCHANGED <<now, dynamicMappings, lastUpdateTime, call, config, sample, messageVars,
                 loop, serverVars>>

NextExtract == Extract

SpecExtract == InitExtract /\ [][NextExtract]_vars

(***************************************************************************)
(* Claims about extractToolInvocations.                                    *)
(***************************************************************************)
Extracted == extraction # <<>>

ToolCallsOf(doc) == Prop(doc, K("tool_calls"))

\* The sample is one json-fenced block, holding an object with a tool_calls
\* array, that lies within the scanned prefix
SingleFencedBlockScanned ==
  /\ sample.layout.wrap = "fenced"
  /\ ToolCallsOf(sample.doc).type = "array"
  /\ Len(sample.text) - Len(sample.layout.post) <= config.SCAN_LIMIT

ArgumentsOf(entry) == Prop(Prop(entry, K("function")), K("arguments"))

\* What the claim says of one entry of the array and the entry returned for it
EntryAsClaimed(entry, returned) ==
  CASE ArgumentsOf(entry).type \in {"object", "array"} ->
         /\ ArgumentsOf(returned) = JStr(JSONStringify(ArgumentsOf(entry)))
         /\ Prop(Prop(returned, K("function")), K("name"))
              = Prop(Prop(entry, K("function")), K("name"))
         /\ ArgumentsOf(entry) = ObjectArguments
              => ArgumentsOf(returned).s = EncodedArguments
    [] ArgumentsOf(entry).type = "string" -> returned = entry
    [] OTHER -> TRUE

ReturnsTheArrayNormalized ==
  LET entries == ToolCallsOf(sample.doc).items
      result == extraction[1]
  IN  /\ result.kind = "calls"
      /\ Len(result.calls) = Len(entries)
      /\ \A i \in DOMAIN entries : EntryAsClaimed(entries[i], result.calls[i])

\* C10 as stated: extractToolInvocations on a text whose scanned prefix holds
\* a single json-fenced object with a tool_calls array returns that array,
\* entry for entry, object and array arguments replaced by their JSON text
\* and string arguments unchanged.
C10_FencedArrayReturned ==
  (Extracted /\ SingleFencedBlockScanned) => ReturnsTheArrayNormalized

HasNullEntry(doc) ==
  \E i \in DOMAIN ToolCallsOf(doc).items : ToolCallsOf(doc).items[i] = Null

\* C10 amended: the same, provided no entry of the tool_calls array is null.
C10_FencedArrayReturnedUnlessNullEntry ==
  (Extracted /\ SingleFencedBlockScanned /\ ~HasNullEntry(sample.doc))
    => ReturnsTheArrayNormalized

C10_Witness ==
  /\ Extracted /\ SingleFencedBlockScanned
  /\ sample.layout.sp # <<>> /\ sample.layout.pre # <<>> /\ sample.layout.post # <<>>
  /\ ToolCallsOf(sample.doc).items
       = <<ToolCall(ObjectArguments), ToolCall(JStr(EncodedArguments))>>
  /\ extraction[1]
       = Calls(<<ToolCall(JStr(EncodedArguments)), ToolCall(JStr(EncodedArguments))>>)

(***************************************************************************)
(* Model discovery (model_fetcher.ts) and GET /models (openai.ts).  The    *)
(* server is one thread: code between two awaits runs as one step, and     *)
(* requests interleave at the awaits.                                      *)
(***************************************************************************)
ModelsReqs == {"m1", "m2"}

\* What https://chat.z.ai/api/models may list
DiscoveredModels ==
  {[id |-> "glm-x", name |-> "GLM X", owned_by |-> "zhipu"],
   [id |-> "glm-y", display_name |-> "GLM Y"],
   Null}

DiscoveredLists == UNION {[1..k -> DiscoveredModels] : k \in 0..MaxListLen}

\* What response.json() may resolve to: null, an object without data, an
\* object with a data list
Payloads == {Null, [object |-> "list"]} \cup {[data |-> l] : l \in DiscoveredLists}

\* fetchLatestModels from "const data = await response.json()" on: data.data
\* of null throws into the catch
LatestModelsOf(data) ==
  IF data = Null THEN [latestModels |-> <<>>, failure |-> "exception"]
  ELSE IF "data" \in DOMAIN data /\ data.data # <<>>
  THEN [latestModels |-> data.data, failure |-> "none"]
  ELSE [latestModels |-> <<>>, failure |-> "empty"]

\* A failed fetchLatestModels returns []
Fetched(latest) ==
  [pc |-> "fetched", latestModels |-> latest.latestModels, failure |-> latest.failure]

NoModels(failure) == Fetched([latestModels |-> <<>>, failure |-> failure])

\* GET /models arrives: the handler, getAvailableModels and fetchLatestModels
\* run up to "await getAnonymousToken()"
GetModels(r) ==
  /\ models[r].pc = "idle"
  /\ models' = [models EXCEPT ![r] = [pc |-> "token"]]
  /\ UNCHANGED <<now, cacheVars, call, config, textVars, chat>>

\* getAnonymousToken() resolves or rejects; on a token, fetch is called
TokenReturns(r, ok) ==
  /\ models[r].pc = "token"
  /\ models' = [models EXCEPT ![r] = IF ok THEN [pc |-> "fetch"] ELSE NoModels("token")]
  /\ UNCHANGED <<now, cacheVars, call, config, textVars, chat>>

FetchOutcomes == {"ok", "status", "timeout"}

\* fetch resolves with a response, or rejects (the 10 s timeout, the network)
FetchReturns(r, outcome) ==
  /\ models[r].pc = "fetch"
  /\ models' = [models EXCEPT ![r] =
                  IF outcome = "ok" THEN [pc |-> "json"] ELSE NoModels(outcome)]
  /\ UNCHANGED <<now, cacheVars, call, config, textVars, chat>>

\* response.json() resolves with data
JsonReturns(r, data) ==
  /\ models[r].pc = "json"
  /\ models' = [models EXCEPT ![r] = Fetched(LatestModelsOf(data))]
  /\ UNCHANGED <<now, cacheVars, call, config, textVars, chat>>

\* response.json() rejects
JsonThrows(r) ==
  /\ models[r].pc = "json"
  /\ models' = [models EXCEPT ![r] = NoModels("exception")]
  /\ UNCHANGED <<now, cacheVars, call, config, textVars, chat>>

\* if (latestModels.length > 0), without the test
ShouldUpdate_Always(latestModels) == TRUE

\* if (latestModels.length > 0)
ShouldUpdate(latestModels) == Len(latestModels) > 0

\* getAvailableModels after "await fetchLatestModels()": the cache it leaves;
\* an exception of updateFromZAIModels ends in its catch.  mappingsToZAIModels()
\* is returned from the try and from the catch alike.
RefreshFrom(dyn, last, t, latestModels) ==
  IF ShouldUpdate(latestModels)
  THEN UpdateFromZAIModels(dyn, last, t, latestModels)
  ELSE [dynamicMappings |-> dyn, lastUpdateTime |-> last, threw |-> FALSE]

AvailableModelsReturn(r) ==
  /\ models[r].pc = "fetched"
  /\ LET after == RefreshFrom(dynamicMappings, lastUpdateTime, now, models[r].latestModels)
     IN  /\ dynamicMappings' = after.dynamicMappings
         /\ lastUpdateTime' = after.lastUpdateTime
         /\ models' = [models EXCEPT ![r] =
                         [pc |-> "listed",
                          failure |-> models[r].failure,
                          raised |-> FALSE,
                          availableModels |-> MappingsToZAIModels(after.dynamicMappings)]]
  /\ UNCHANGED <<now, call, config, textVars, chat>>

\* The response of the try branch of the handler
ModelsResponse(availableModels) ==
  [object |-> "list",
   data |-> [i \in DOMAIN availableModels |->
               [id |-> availableModels[i].id,
                object |-> "model",
                owned_by |-> IF availableModels[i].owned_by # ""
                             THEN availableModels[i].owned_by ELSE "z.ai"]]]

\* The response of the catch branch of the handler
DefaultModelsResponse ==
  [object |-> "list",
   data |-> [i \in DOMAIN BUILTIN_MODEL_MAPPINGS |->
               [id |-> BUILTIN_MODEL_MAPPINGS[i][1], object |-> "model",
                owned_by |-> "z.ai"]]]

\* The handler after "await getAvailableModels()"
RespondModels(r) ==
  /\ models[r].pc = "listed"
  /\ models' = [models EXCEPT ![r] =
                  [pc |-> "done",
                   failure |-> models[r].failure,
                   response |-> [status |-> 200,
                                 body |-> IF models[r].raised THEN DefaultModelsResponse
                                          ELSE ModelsResponse(models[r].availableModels)]]]
  /\ UNCHANGED <<now, cacheVars, call, config, textVars, chat>>

ModelsStep(r) ==
  \/ GetModels(r)
  \/ \E ok \in BOOLEAN : TokenReturns(r, ok)
  \/ \E outcome \in FetchOutcomes : FetchReturns(r, outcome)
  \/ \E data \in Payloads : JsonReturns(r, data)
  \/ JsonThrows(r)
  \/ AvailableModelsReturn(r)
  \/ RespondModels(r)

ServerConfig == [TOOL_SUPPORT |-> TRUE, SKIP_AUTH_TOKEN |-> FALSE, SCAN_LIMIT |-> 400]

InitDiscovery ==
  /\ now \in Instants
  /\ NewManager
  /\ call = Idle
  /\ config = ServerConfig
  /\ NoText
  /\ models = [r \in ModelsReqs |-> [pc |-> "idle"]]
  /\ chat = <<>>

NextDiscovery ==
  \/ Tick
  \/ \E r \in ModelsReqs : ModelsStep(r)

SpecDiscovery == InitDiscovery /\ [][NextDiscovery]_vars

(***************************************************************************)
(* Claims about discovery.                                                 *)
(***************************************************************************)
\* fetchLatestModels failed, or returned nothing, for the request
DiscoveryFailed(req) == "failure" \in DOMAIN req /\ req.failure # "none"

ReturnedNormally(req) == req.pc = "listed" => ~req.raised

\* The ids of the builtin models and of the cached dynamic mappings
CachedIds(dyn) == BuiltinKeys \cup KeySet(dyn)

\* getAvailableModels returns the builtin models and the cached dynamic ones
ListsCached(req, dyn) ==
  req.pc = "listed" =>
    {req.availableModels[i].id : i \in DOMAIN req.availableModels} = CachedIds(dyn)

\* The handler sends, with status 200, the list getAvailableModels returned
SendsList(before, req) ==
  req.pc = "done" =>
    /\ req.response.status = 200
    /\ [i \in DOMAIN req.response.body.data |-> req.response.body.data[i].id]
         = [i \in DOMAIN before.availableModels |-> before.availableModels[i].id]

\* C5: every step of a GET /models request whose fetchLatestModels failed
\* (token failure, non-2xx status, timeout, exception, empty result) leaves
\* dynamicMappings and lastUpdateTime as they were; getAvailableModels returns
\* normally with the builtin models and the dynamic mappings that were
\* cached, and that list is what the client is sent.
C5_DiscoveryFailureAbsorbed ==
  [][\A r \in ModelsReqs :
       (models'[r] # models[r] /\ DiscoveryFailed(models'[r])) =>
         /\ UNCHANGED cacheVars
         /\ ReturnedNormally(models'[r])
         /\ ListsCached(models'[r], dynamicMappings)
         /\ SendsList(models[r], models'[r])]_vars

C5_Witness ==
  \E r \in ModelsReqs :
    /\ models[r].pc = "done"
    /\ models[r].failure = "timeout"
    /\ KeySet(dynamicMappings) = {"glm-x", "glm-y"}
    /\ lastUpdateTime # 0
    /\ Len(models[r].response.body.data) = Len(BUILTIN_MODEL_MAPPINGS) + 2

\* C6: dynamicMappings and lastUpdateTime change only in the one step of a
\* request in which getAvailableModels runs updateFromZAIModels; that step
\* makes the TTL test on the lastUpdateTime it replaces and leaves the whole
\* dynamic set of the list it was given; and the reader of that step,
\* mappingsToZAIModels, lists the builtin models and that whole set.
RefreshStep(r) == models[r].pc = "fetched" /\ models'[r].pc = "listed"

WholeReplacement(r) ==
  /\ ~Throttled(lastUpdateTime, now)
  /\ dynamicMappings' = FillDynamicMappings(<<>>, models[r].latestModels)
  /\ KeySet(dynamicMappings')
       = {m.id : m \in {x \in Range(models[r].latestModels) : ~SkipModel(x.id)}}
  /\ lastUpdateTime' = now

C6_RefreshAtomicToReaders ==
  [][/\ cacheVars' # cacheVars => \E r \in ModelsReqs : RefreshStep(r) /\ WholeReplacement(r)
     /\ \A r \in ModelsReqs :
          RefreshStep(r) =>
            /\ UNCHANGED cacheVars \/ WholeReplacement(r)
            /\ models'[r].availableModels = MappingsToZAIModels(dynamicMappings')
            /\ \A q \in ModelsReqs \ {r} : models'[q] = models[q]]_vars

\* Two requests have refreshed one after the other, the second replacing a
\* two-model set by a one-model set while the first has still to respond
C6_Witness ==
  /\ models["m1"].pc = "listed"
  /\ Len(models["m1"].availableModels) = Len(BUILTIN_MODEL_MAPPINGS) + 2
  /\ models["m2"].pc = "listed"
  /\ Len(models["m2"].availableModels) = Len(BUILTIN_MODEL_MAPPINGS) + 1
  /\ KeySet(dynamicMappings) = {"glm-y"}

(***************************************************************************)
(* POST /chat/completions (openai.ts).                                     *)
(***************************************************************************)
ChatReqs == {"c1"}

AUTH_TOKEN == "sk-your-key"

\* The authorization header: absent, or a scheme and what follows it
Authorizations ==
  {Null,
   [scheme |-> "Basic", key |-> AUTH_TOKEN],
   [scheme |-> "Bearer", key |-> "sk-other"],
   [scheme |-> "Bearer", key |-> AUTH_TOKEN]}

Messages == <<[role |-> "user", content |-> "hi"]>>

RequestedModels == {SEARCH_MODEL, "glm-x", "unknown-model-xyz", "constructor"}

\* Request bodies that OpenAIRequestSchema accepts: tools and tool_choice
\* are optional
ValidBodies ==
  LET base == [model : RequestedModels, messages : {Messages}, stream : BOOLEAN]
      tools == {<<>>, <<"get_weather">>}
  IN  base
        \cup {[model |-> b.model, messages |-> b.messages, stream |-> b.stream,
               tools |-> t] : b \in base, t \in tools}
        \cup {[model |-> b.model, messages |-> b.messages, stream |-> b.stream,
               tools |-> t, tool_choice |-> "none"] : b \in base, t \in tools}

\* A body the schema rejects
InvalidBody == [stream |-> TRUE]

SchemaAccepts(body) == {"model", "messages", "stream"} \subseteq DOMAIN body

Response(status, body) == [status |-> status, body |-> body]

ErrorBody(text) == [error |-> text]

\* A finished request: what was sent, and what the request did on the way
Done(req, response) ==
  [pc |-> "done", response |-> response,
   upstreamCalls |-> IF "upstreamCalls" \in DOMAIN req THEN req.upstreamCalls ELSE <<>>,
   authTokenCalls |-> IF "authTokenCalls" \in DOMAIN req THEN req.authTokenCalls ELSE 0,
   extractions |-> IF "extractions" \in DOMAIN req THEN req.extractions ELSE 0,
   trace |-> [f \in DOMAIN req \ {"pc", "upstreamCalls", "authTokenCalls", "extractions"}
                |-> req[f]]]

\* ctx.response as the handler finds it: no status assigned (0), no body
NewResponse == Response(0, Undefined)

\* What the handler has assigned to ctx.response so far
ResponseOf(req) == IF "response" \in DOMAIN req THEN req.response ELSE NewResponse

\* !ctx.response.body is false: the body is neither undefined nor ""
BodySet(response) == response.body # Undefined /\ response.body # JStr(<<>>)

\* The outer catch without its assignments
OuterCatch_Silent(response) == response

\* The outer catch: if (!ctx.response.body) { status = 500; body = {error} }
OuterCatch(response) ==
  IF ~BodySet(response) THEN Response(500, ErrorBody("Internal server error"))
  ELSE response

\* An exception of the try reaches the outer catch; the body is still unset
\* wherever the try can throw
InternalError(req) == Done(req, OuterCatch(ResponseOf(req)))

\* The API key test
Authorized(cfg, authorization) ==
  \/ cfg.SKIP_AUTH_TOKEN
  \/ /\ authorization # Null
     /\ authorization.scheme = "Bearer"
     /\ authorization.key = AUTH_TOKEN

\* The handler up to "await ctx.request.body().value"
PostChat(c, authorization, body) ==
  /\ chat[c].pc = "idle"
  /\ chat' = [chat EXCEPT ![c] =
       IF Authorized(config, authorization)
       THEN [pc |-> "body", body |-> body]
       ELSE Done([authorization |-> authorization],
                 Response(401, ErrorBody(
                   IF authorization = Null \/ authorization.scheme # "Bearer"
                   THEN "Missing or invalid Authorization header"
                   ELSE "Invalid API key")))]
  /\ UNCHANGED <<now, cacheVars, call, config, textVars, models>>

\* features.web_search || false: features is the set of the flags that are on
FeatureOn(features, flag) == flag \in features

\* The upstream request, without its ids, messages and template variables
UpstreamReq(upstreamConfig) ==
  [stream |-> TRUE,
   model |-> upstreamConfig.upstreamModelId,
   features |-> [enable_thinking |-> TRUE,
                 web_search |-> FeatureOn(upstreamConfig.features, "web_search"),
                 auto_web_search |-> FeatureOn(upstreamConfig.features, "auto_web_search")],
   mcp_servers |-> upstreamConfig.mcpServers,
   model_item |-> [id |-> upstreamConfig.upstreamModelId,
                   name |-> upstreamConfig.upstreamModelName,
                   owned_by |-> "openai"]]

\* From the body to "await getAuthToken()": the schema, getUpstreamConfig,
\* the 400 of an unknown model, the upstream request.  features.web_search
\* throws when the configuration has no features.
Resolve(dyn, request) ==
  LET upstreamConfig == GetUpstreamConfig(dyn, request.model)
      resolved == [request |-> request, upstreamConfig |-> upstreamConfig]
  IN  IF upstreamConfig = Null
      THEN Done([request |-> request],
                Response(400, ErrorBody("Unsupported model: " \o request.model)))
      ELSE IF "features" \notin DOMAIN upstreamConfig
      THEN InternalError(resolved)
      ELSE [pc |-> "authToken", request |-> request, upstreamConfig |-> upstreamConfig,
            upstreamReq |-> UpstreamReq(upstreamConfig), authTokenCalls |-> 1,
            upstreamCalls |-> <<>>, extractions |-> 0]

BodyRead(c) ==
  /\ chat[c].pc = "body"
  /\ chat' = [chat EXCEPT ![c] =
       IF SchemaAccepts(chat[c].body) THEN Resolve(dynamicMappings, chat[c].body)
       ELSE InternalError([body |-> chat[c].body])]
  /\ UNCHANGED <<now, cacheVars, call, config, textVars, models>>

\* hasTools
HasTools(cfg, request) ==
  /\ cfg.TOOL_SUPPORT
  /\ "tools" \in DOMAIN request
  /\ Len(request.tools) > 0
  /\ ~("tool_choice" \in DOMAIN request /\ request.tool_choice = "none")

\* getAuthToken() resolves: callUpstreamApi is called for a streaming client,
\* and handler.handle(), which makes the one upstream call of the aggregation
\* mode, for the others
AuthTokenReturns(c) ==
  /\ chat[c].pc = "authToken"
  /\ chat' = [chat EXCEPT ![c] =
       [chat[c] EXCEPT !.pc = IF chat[c].request.stream THEN "upstream" ELSE "handler",
                       !.upstreamCalls = Append(@, chat[c].upstreamReq)]]
  /\ UNCHANGED <<now, cacheVars, call, config, textVars, models>>

\* A ReadableStream and the bytes it will deliver
Stream(chunks) == [type |-> "stream", chunks |-> chunks]

\* What the upstream may send as the body of its answer
UpstreamBodies ==
  {Stream(<<"Hello">>),
   Stream(Fenced(Stringify(
     JObj(<< <<K("tool_calls"), JArr(<<ToolCall(ObjectArguments)>>)>> >>), <<>>)))}

UpstreamResponses ==
  {[ok |-> TRUE, status |-> 200, body |-> b] : b \in UpstreamBodies \cup {Null}}
    \cup {[ok |-> FALSE, status |-> 502, body |-> Stream(<<"Bad", " ", "Gateway">>)]}

\* The stream branch with the upstream bytes framed anew
StreamResponse_Reframed(upstreamResponse) ==
  IF ~upstreamResponse.ok THEN [awaitText |-> TRUE, status |-> upstreamResponse.status]
  ELSE IF upstreamResponse.body # Null
  THEN [awaitText |-> FALSE,
        response |-> Response(200, Stream(<<"data", ":", " ">>
                                            \o upstreamResponse.body.chunks))]
  ELSE [awaitText |-> FALSE,
        response |-> Response(500, ErrorBody("Upstream response has no body"))]

\* The stream branch after "await callUpstreamApi(...)"
StreamResponse(upstreamResponse) ==
  IF ~upstreamResponse.ok THEN [awaitText |-> TRUE, status |-> upstreamResponse.status]
  ELSE IF upstreamResponse.body # Null
  THEN [awaitText |-> FALSE, response |-> Response(200, upstreamResponse.body)]
  ELSE [awaitText |-> FALSE,
        response |-> Response(500, ErrorBody("Upstream response has no body"))]

UpstreamReturns(c, upstreamResponse) ==
  /\ chat[c].pc = "upstream"
  /\ LET req == [chat[c] EXCEPT !.pc = "text"] @@ [upstreamResponse |-> upstreamResponse]
         out == StreamResponse(upstreamResponse)
     IN  chat' = [chat EXCEPT ![c] =
           IF out.awaitText THEN req @@ [status |-> out.status]
           ELSE Done(req, out.response)]
  /\ UNCHANGED <<now, cacheVars, call, config, textVars, models>>

\* callUpstreamApi rejects: the inner catch
UpstreamThrows(c) ==
  /\ chat[c].pc = "upstream"
  /\ chat' = [chat EXCEPT ![c] =
       Done(chat[c], Response(500, ErrorBody("Upstream API call failed")))]
  /\ UNCHANGED <<now, cacheVars, call, config, textVars, models>>

\* upstreamResponse.text() resolves, or rejects into the inner catch
TextReturns(c, ok) ==
  /\ chat[c].pc = "text"
  /\ chat' = [chat EXCEPT ![c] =
       IF ok THEN Done(chat[c], Response(chat[c].status,
                                         JStr(chat[c].upstreamResponse.body.chunks)))
       ELSE Done(chat[c], Response(500, ErrorBody("Upstream API call failed")))]
  /\ UNCHANGED <<now, cacheVars, call, config, textVars, models>>

\* NonStreamResponseHandler.handle() (response_handlers.ts): what the
\* aggregation of the upstream events ends in.  The extraction engine runs
\* once, over the finished content, when tool support is active.
HandlerResponses ==
  {[status |-> 200, text |-> <<"completion">>], [status |-> 500, text |-> <<"error">>]}

HandlerReturns(c, response) ==
  /\ chat[c].pc = "handler"
  /\ chat' = [chat EXCEPT ![c] =
       [chat[c] EXCEPT !.pc = "handlerText",
                       !.extractions =
                          IF response.status = 200 /\ HasTools(config, chat[c].request)
                          THEN @ + 1 ELSE @]
         @@ [handlerResponse |-> response]]
  /\ UNCHANGED <<now, cacheVars, call, config, textVars, models>>

\* handler.handle() rejects: the catch of the non-stream branch
HandlerThrows(c) ==
  /\ chat[c].pc = "handler"
  /\ chat' = [chat EXCEPT ![c] =
       Done(chat[c], Response(500, ErrorBody("Non-stream processing error")))]
  /\ UNCHANGED <<now, cacheVars, call, config, textVars, models>>

\* response.text() of the handler's response resolves
HandlerTextReturns(c) ==
  /\ chat[c].pc = "handlerText"
  /\ chat' = [chat EXCEPT ![c] =
       Done(chat[c], Response(chat[c].handlerResponse.status,
                              JStr(chat[c].handlerResponse.text)))]
  /\ UNCHANGED <<now, cacheVars, call, config, textVars, models>>

ChatStep(c) ==
  \/ \E authorization \in Authorizations, body \in ValidBodies \cup {InvalidBody} :
        PostChat(c, authorization, body)
  \/ BodyRead(c)
  \/ AuthTokenReturns(c)
  \/ \E upstreamResponse \in UpstreamResponses : UpstreamReturns(c, upstreamResponse)
  \/ UpstreamThrows(c)
  \/ \E ok \in BOOLEAN : TextReturns(c, ok)
  \/ \E response \in HandlerResponses : HandlerReturns(c, response)
  \/ HandlerThrows(c)
  \/ HandlerTextReturns(c)

\* One model listing beside the chat requests
ListingReqs == {"m1"}

InitChat ==
  /\ now \in {UPDATE_INTERVAL}
  /\ NewManager
  /\ call = Idle
  /\ config \in {cfg \in Configs : cfg.SCAN_LIMIT = ServerConfig.SCAN_LIMIT}
  /\ NoText
  /\ models = [r \in ListingReqs |-> [pc |-> "idle"]]
  /\ chat = [c \in ChatReqs |-> [pc |-> "idle"]]

NextChat ==
  \/ \E r \in ListingReqs : ModelsStep(r)
  \/ \E c \in ChatReqs : ChatStep(c)

SpecChat == InitChat /\ [][NextChat]_vars

(***************************************************************************)
(* Claims about POST /chat/completions.                                    *)
(***************************************************************************)
\* What a request has recorded under the name f, in flight or finished
Recorded(req, f) == IF req.pc = "done" THEN req.trace[f] ELSE req[f]

HasRecorded(req, f) ==
  IF req.pc = "done" THEN f \in DOMAIN req.trace ELSE f \in DOMAIN req

UpstreamCallsOf(req) == IF "upstreamCalls" \in DOMAIN req THEN req.upstreamCalls ELSE <<>>

\* C7: an authenticated, schema-valid request whose model id is a key of
\* neither the builtin nor the dynamic mappings is answered with HTTP 400 and
\* an error naming the model, by the step that resolves the model, without a
\* call of getAuthToken or callUpstreamApi, whatever its stream flag.
C7_UnknownModelRejected ==
  [][\A c \in ChatReqs :
       (/\ chat[c].pc = "body" /\ chat'[c] # chat[c]
        /\ SchemaAccepts(chat[c].body)
        /\ chat[c].body.model \notin CachedIds(dynamicMappings))
       => /\ chat'[c].pc = "done"
          /\ chat'[c].response
               = Response(400, ErrorBody("Unsupported model: " \o chat[c].body.model))
          /\ chat'[c].upstreamCalls = <<>>
          /\ chat'[c].authTokenCalls = 0]_vars

\* A streaming request whose upstream call returned ok with a body
StreamedWithBody(req) ==
  /\ req.pc = "done"
  /\ HasRecorded(req, "upstreamResponse")
  /\ req.trace.request.stream
  /\ req.trace.upstreamResponse.ok
  /\ req.trace.upstreamResponse.body # Null

\* C8: the client of a stream=true request whose upstream call succeeded with
\* a body is sent that very body, with status 200, and the tool utilities are
\* never applied for a stream=true request, tools and tool support or not.
C8_StreamPassthrough ==
  \A c \in ChatReqs :
    /\ StreamedWithBody(chat[c]) =>
         chat[c].response = Response(200, chat[c].trace.upstreamResponse.body)
    /\ (HasRecorded(chat[c], "request") /\ Recorded(chat[c], "request").stream
          /\ "extractions" \in DOMAIN chat[c])
         => chat[c].extractions = 0

C8_Witness ==
  \E c \in ChatReqs :
    /\ StreamedWithBody(chat[c])
    /\ HasTools(config, chat[c].trace.request)
    /\ ExtractToolInvocations(chat[c].trace.upstreamResponse.body.chunks,
                              config.SCAN_LIMIT).kind = "calls"
    /\ chat[c].response.body = chat[c].trace.upstreamResponse.body

\* C9: a request issues at most one upstream chat call, always with
\* stream = true; a request answered 401 or 400 issues none; a request that
\* passed authentication, validation and the test of its resolved upstream
\* configuration, and is finished, has issued exactly one.
C9_OneUpstreamCall ==
  \A c \in ChatReqs :
    LET calls == UpstreamCallsOf(chat[c])
    IN  /\ Len(calls) <= 1
        /\ \A i \in DOMAIN calls : calls[i].stream
        /\ (chat[c].pc = "done" /\ chat[c].response.status \in {400, 401})
             => calls = <<>>
        /\ (chat[c].pc = "done" /\ HasRecorded(chat[c], "upstreamConfig"))
             => Len(calls) = 1

\* The entries of the returned list that carry a function
ReturnedFunctions ==
  IF Extracted /\ extraction[1].kind = "calls"
  THEN {Prop(extraction[1].calls[i], K("function")) : i \in DOMAIN extraction[1].calls}
         \ {Undefined}
  ELSE {}

\* C11: every tool call that extractToolInvocations returns has a
\* function.arguments that is a string, whatever JSON value the text gave for
\* it: object, array, string, number, zero, true, false, null, or no
\* arguments key at all.
C11_ArgumentsAlwaysString ==
  \A func \in ReturnedFunctions : Prop(func, K("arguments")).type = "string"

\* The sample's document in a json fence, in the sample's prose and spacing
FencedText == Render(sample.doc, [sample.layout EXCEPT !.wrap = "fenced"])

\* The sample holds, inline, a well-formed object with a tool_calls array
InlineToolCalls ==
  /\ sample.layout.wrap = "inline"
  /\ ToolCallsOf(sample.doc).type = "array"

SameAsFenced ==
  extraction[1] = ExtractToolInvocations(FencedText, config.SCAN_LIMIT)

\* C12 as stated: for a text that holds a well-formed object with a
\* tool_calls array inline, extractToolInvocations returns what it returns for
\* the text with the object in a json fence, whatever the prose around it.
C12_InlineSameAsFenced ==
  (Extracted /\ InlineToolCalls) => SameAsFenced

\* The fenced text, up to its closing fence, lies within the scanned prefix
FencedTextScanned == Len(FencedText) - Len(sample.layout.post) <= config.SCAN_LIMIT

\* C12 amended: the same, provided the fenced block lies within the first
\* SCAN_LIMIT characters of its text.
C12_InlineSameAsFencedWithinScanLimit ==
  (Extracted /\ InlineToolCalls /\ FencedTextScanned) => SameAsFenced

C12_Witness ==
  /\ Extracted /\ InlineToolCalls /\ FencedTextScanned
  /\ sample.layout.pre # <<>> /\ sample.layout.sp # <<>>
  /\ ToolCallsOf(sample.doc).items
       = <<ToolCall(JStr(<<"}">>)), ToolCall(ObjectArguments)>>
  /\ extraction[1]
       = Calls(<<ToolCall(JStr(<<"}">>)), ToolCall(JStr(EncodedArguments))>>)
  /\ SameAsFenced

\* C13: extractToolInvocations returns a list of tool calls or null, and
\* never throws, for every text: with malformed JSON candidates, and with
\* one, two, three or more matches of the natural-language pattern.
C13_NeverThrows ==
  Extracted => extraction[1].kind \in {"calls", "null"}

(***************************************************************************)
(* Sample texts for removeToolJsonContent: prose, at most one object with  *)
(* tool_calls, fenced or inline, and what may stand before and after it:   *)
(* nothing, a JSON object without tool_calls, text in braces that is not   *)
(* JSON, an object that holds an object with tool_calls.                   *)
(***************************************************************************)
StripToolDocs ==
  {JObj(<< <<K("tool_calls"), JArr(<<ToolCall(ObjectArguments)>>)>> >>),
   JObj(<< <<K("tool_calls"), JArr(<<ToolCall(JStr(<<"}", FENCE>>))>>)>> >>),
   JObj(<< <<K("tool_calls"), JArr(<<Null>>)>> >>),
   JObj(<< <<K("tool_calls"), JArr(<<>>)>> >>),
   JObj(<< <<K("tool_calls"), JStr(K("x"))>> >>)}

NestedDoc ==
  JObj(<< <<K("a"), JObj(<< <<K("tool_calls"), JArr(<<>>)>> >>)>> >>)

Nothing == [kind |-> "none", text |-> <<>>]

Neighbours ==
  {Nothing,
   [kind |-> "plain", text |-> EncodedArguments],
   [kind |-> "rejected", text |-> <<"{", "a", "}">>],
   [kind |-> "nested", text |-> Stringify(NestedDoc, <<>>)]}

\* The tool-call object as it stands in the text
Blocks ==
  {Nothing}
    \cup {[kind |-> wrap, doc |-> doc, sp |-> sp,
           text |-> IF wrap = "fenced" THEN Fenced(Stringify(doc, sp))
                    ELSE Stringify(doc, sp)] :
            wrap \in {"fenced", "inline"}, doc \in StripToolDocs, sp \in {<<>>, <<" ">>}}

StripSamples ==
  {[before |-> before, block |-> block, after |-> after, sep |-> sep,
    layout |-> prose,
    text |-> prose.pre \o before.text \o sep \o block.text \o sep \o after.text
               \o prose.post] :
     before \in Neighbours, block \in Blocks, after \in Neighbours,
     sep \in {<<>>, <<"\n">>}, prose \in Proses}

InitStrip ==
  /\ now \in {UPDATE_INTERVAL}
  /\ NewManager
  /\ call = Idle
  /\ config \in {c \in Configs : c.TOOL_SUPPORT /\ ~c.SKIP_AUTH_TOKEN}
  /\ sample \in StripSamples
  /\ extraction = <<>>
  /\ NoMessages
  /\ NoLoop
  /\ NoRequests

\* removeToolJsonContent(sample.text)
Strip ==
  /\ extraction = <<>>
  /\ extraction' = <<[kind |-> "text", text |-> RemoveToolJsonContent(sample.text)]>>
  /\ UNCHANGED <<now, dynamicMappings, lastUpdateTime, call, config, sample, messageVars,
                 loop, serverVars>>

NextStrip == Strip

SpecStrip == InitStrip /\ [][NextStrip]_vars

(***************************************************************************)
(* Claims about removeToolJsonContent.                                     *)
(***************************************************************************)
Stripped == extraction # <<>> /\ extraction[1].kind = "text"

\* The text t stands in the text s, character for character
Occurs(t, s) == \E k \in 0..(Len(s) - Len(t)) : SubSeq(s, k + 1, k + Len(t)) = t

\* No "{" of s opens a balanced text that parses to an object with tool_calls
NoToolJson(s) ==
  \A i \in DOMAIN s : s[i] = "{" => ~SkipsAt(s, i, ScanFrom(s, i))

Trimmed(s) == s = <<>> \/ (~IsWs(s[1]) /\ ~IsWs(s[Len(s)]))

\* The sample without what stands for its tool-call object
Without(removed) ==
  sample.layout.pre \o sample.before.text \o sample.sep \o removed \o sample.sep
    \o sample.after.text \o sample.layout.post

\* Prose, exactly one object with tool_calls, and neighbours that are JSON
\* objects without tool_calls
OneToolObject ==
  /\ sample.block.kind # "none"
  /\ sample.before.kind \in {"none", "plain"}
  /\ sample.after.kind \in {"none", "plain"}

\* The fenced pattern ends inside the object, at a "}" and a fence within a
\* string: the object is then removed by the brace scan and its fence stays
FenceOutlivesObject ==
  /\ sample.block.kind = "fenced"
  /\ FenceMatchAt(sample.block.text, 1).end <= Len(sample.block.text)

\* C14: for prose with exactly one JSON object carrying tool_calls, fenced or
\* inline, and possibly a neighbouring JSON object without tool_calls,
\* removeToolJsonContent returns the text without the tool-call object (a
\* fenced one with its fence), holding no object with tool_calls, holding
\* the neighbouring object character for character, and without leading or
\* trailing whitespace.
C14_ToolJsonRemoved ==
  (Stripped /\ OneToolObject) =>
    LET out == extraction[1].text
    IN  /\ out = Trim(Without(IF FenceOutlivesObject THEN Fenced(<<>>) ELSE <<>>))
        /\ NoToolJson(out)
        /\ Occurs(sample.before.text, out)
        /\ Occurs(sample.after.text, out)
        /\ Trimmed(out)

C14_Witness ==
  /\ Stripped /\ OneToolObject
  /\ sample.block.kind = "inline" /\ sample.block.sp # <<>>
  /\ sample.block.doc
       = JObj(<< <<K("tool_calls"), JArr(<<ToolCall(ObjectArguments)>>)>> >>)
  /\ sample.before.kind = "plain" /\ sample.after.kind = "plain"
  /\ sample.sep = <<>> /\ sample.layout.pre # <<>>
  /\ extraction[1].text
       = <<"Sure", ".", "\n">> \o EncodedArguments \o EncodedArguments
           \o <<"\n", "Done", ".">>

(***************************************************************************)
(* The message preprocessor (tools.ts).  A message is a record with a      *)
(* role, a content and what else the client sent; a content is a JSON      *)
(* value, missing where it is Undefined.  The fixed Chinese texts are one  *)
(* element each.                                                           *)
(***************************************************************************)
DEFAULT_PERSONA == "helpful-assistant-zh"
THINKING_PERSONA == "helpful-ai-assistant-zh"
THINKING_TAG == "<thinking>"
USE_TOOLS_HINT == "use-the-tools-as-needed-zh"
TOOL_ZH == "tool-zh"
RESULT_ZH == "returned-result-zh"
EXECUTED_ZH == "executed-zh"

\* a || b
OrDefault(a, b) == IF JTruthy(a) THEN a ELSE b

\* parts.join(sep)
RECURSIVE Join(_, _)
Join(parts, sep) ==
  IF parts = <<>> THEN <<>>
  ELSE IF Len(parts) = 1 THEN parts[1]
  ELSE parts[1] \o sep \o Join(Tail(parts), sep)

\* The loop of contentToString over the parts from i on: a text part gives
\* its text or "", a string gives itself, anything else gives nothing
RECURSIVE TextParts(_, _)
TextParts(content, i) ==
  IF i > Len(content) THEN <<>>
  ELSE (IF content[i].type = "object" /\ Prop(content[i], K("type")) = JStr(K("text"))
        THEN <<OrDefault(Prop(content[i], K("text")), JStr(<<>>)).s>>
        ELSE IF content[i].type = "string" THEN <<content[i].s>>
        ELSE <<>>)
         \o TextParts(content, i + 1)

\* contentToString(content): the characters of the string it returns
ContentToString(content) ==
  IF content.type = "string" THEN content.s
  ELSE IF content.type = "array" THEN Join(TextParts(content.items, 1), <<" ">>)
  ELSE <<>>

\* contentToString(m.content || "")
ContentOf(m) ==
  ContentToString(OrDefault(IF "content" \in DOMAIN m THEN m.content ELSE Undefined,
                            JStr(<<>>)))

\* { ...m, content: chars }
WithContent(m, chars) ==
  [f \in DOMAIN m \cup {"content"} |-> IF f = "content" THEN JStr(chars) ELSE m[f]]

\* One line of the parameter table
ParameterLine(parameters, p) ==
  <<"\n", "-", p.name, "(", IF "type" \in DOMAIN p THEN p.type ELSE "unknown", ")",
    "-", IF p.name \in parameters.required THEN "**Required**" ELSE "*Optional*", ":",
    IF "description" \in DOMAIN p THEN p.description ELSE "">>

RECURSIVE ParameterLines(_, _)
ParameterLines(parameters, i) ==
  IF i > Len(parameters.properties) THEN <<>>
  ELSE ParameterLine(parameters, parameters.properties[i])
         \o ParameterLines(parameters, i + 1)

\* toolInfo.join("\n") of one function
ToolInfo(functionSpec) ==
  <<"##", IF functionSpec.name # "" THEN functionSpec.name ELSE "unknown", "\n",
    "**Purpose**:",
    IF "description" \in DOMAIN functionSpec THEN functionSpec.description ELSE "">>
    \o (IF "parameters" \in DOMAIN functionSpec
           /\ functionSpec.parameters.properties # <<>>
        THEN <<"\n", "**Parameters**:">> \o ParameterLines(functionSpec.parameters, 1)
        ELSE <<>>)

\* toolDefinitions: the tools that are functions, from i on
RECURSIVE ToolDefinitions(_, _)
ToolDefinitions(tools, i) ==
  IF i > Len(tools) THEN <<>>
  ELSE (IF tools[i].type = "function" /\ "function" \in DOMAIN tools[i]
        THEN <<ToolInfo(tools[i].function)>> ELSE <<>>)
         \o ToolDefinitions(tools, i + 1)

\* promptTemplate around the definitions
PromptTemplate(toolDefinitions) ==
  <<"\n", "\n", "# AVAILABLE FUNCTIONS", "\n">>
    \o Join(toolDefinitions, <<"\n", "\n", "---", "\n">>)
    \o <<"\n", "\n", "# USAGE INSTRUCTIONS", "\n", "usage-instructions">>

\* generateToolPrompt(tools); tools is undefined or a list
GenerateToolPrompt(tools) ==
  IF tools.type = "undefined" \/ tools.items = <<>> THEN <<>>
  ELSE IF ToolDefinitions(tools.items, 1) = <<>> THEN <<>>
  ELSE PromptTemplate(ToolDefinitions(tools.items, 1))

\* messages.some(m => m.role === "system")
HasSystem(messages) == \E i \in DOMAIN messages : messages[i].role = "system"

\* The branch "if (hasSystem)" and its else: the prompt goes to the end of
\* every system message, or into a new first message
InjectToolPrompt(messages, toolsPrompt) ==
  IF HasSystem(messages)
  THEN [i \in DOMAIN messages |->
          IF messages[i].role = "system"
          THEN WithContent(messages[i], ContentOf(messages[i]) \o toolsPrompt)
          ELSE messages[i]]
  ELSE <<[role |-> "system", content |-> JStr(<<DEFAULT_PERSONA>> \o toolsPrompt)]>>
         \o messages

\* What "Add tool choice hints" appends to the last message: nothing, the hint
\* of "required" and "auto", or the hint that names the function
ToolChoiceHint(toolChoice) ==
  IF toolChoice \in {JStr(<<"required">>), JStr(<<"auto">>)}
  THEN <<"\n", "\n", USE_TOOLS_HINT>>
  ELSE IF toolChoice.type = "object" /\ Prop(toolChoice, K("type")) = JStr(K("function"))
          /\ JTruthy(Prop(Prop(toolChoice, K("function")), K("name")))
  THEN <<"\n", "\n", "please-use-zh">>
         \o Prop(Prop(toolChoice, K("function")), K("name")).s
         \o <<"function-for-this-request-zh">>
  ELSE <<>>

\* The role of the last message left untested: the hint goes to any last
\* message
AddToolChoiceHint_AnyRole(processed, toolChoice) ==
  IF ToolChoiceHint(toolChoice) # <<>> /\ processed # <<>>
  THEN [processed EXCEPT ![Len(processed)] =
          WithContent(@, ContentOf(@) \o ToolChoiceHint(toolChoice))]
  ELSE processed

\* "Add tool choice hints": the last message, if it is the user's, is replaced
\* by a copy with the hint at the end of its content
AddToolChoiceHint(processed, toolChoice) ==
  IF ToolChoiceHint(toolChoice) # <<>> /\ processed # <<>>
       /\ processed[Len(processed)].role = "user"
  THEN [processed EXCEPT ![Len(processed)] =
          WithContent(@, ContentOf(@) \o ToolChoiceHint(toolChoice))]
  ELSE processed

\* if (tools && config.TOOL_SUPPORT && (toolChoice !== "none")): a list, the
\* empty one too, is truthy
InjectionActive(cfg, tools, toolChoice) ==
  tools.type # "undefined" /\ cfg.TOOL_SUPPORT /\ toolChoice # JStr(<<"none">>)

\* The text that stands for a tool or function message
ToolResult(m) ==
  LET toolName == IF "name" \in DOMAIN m /\ m.name # "" THEN m.name ELSE "unknown"
      content == <<TOOL_ZH, " ", toolName, " ", RESULT_ZH, ":", "\n", FENCE, "json", "\n">>
                   \o ContentOf(m) \o <<"\n", FENCE>>
  IN  IF Trim(content) = <<>> THEN <<TOOL_ZH, " ", toolName, " ", EXECUTED_ZH>>
      ELSE content

\* The loop over processed left out: every message goes out as it is
FinalMsg_AsGiven(m) == m

\* "Handle tool/function messages": one message of finalMsgs
FinalMsg(m) ==
  IF m.role \in {"tool", "function"}
  THEN [role |-> "assistant", content |-> JStr(ToolResult(m))]
  ELSE WithContent(m, ContentOf(m))

\* processed, before the tool and function messages are handled
Processed(cfg, messages, tools, toolChoice) ==
  IF InjectionActive(cfg, tools, toolChoice)
  THEN AddToolChoiceHint(InjectToolPrompt(messages, GenerateToolPrompt(tools)), toolChoice)
  ELSE messages

\* processMessagesWithTools(messages, tools, toolChoice)
ProcessMessagesWithTools(cfg, messages, tools, toolChoice) ==
  LET Final(processed) == [i \in DOMAIN processed |-> FinalMsg(processed[i])]
  IN  Final(Processed(cfg, messages, tools, toolChoice))

\* thinkingInstruction
ThinkingInstruction ==
  <<"\n", "\n", "before-answering-think-in-zh", THINKING_TAG, "thinking-steps-zh">>

\* existingContent.includes(t)
Includes(s, t) == Occurs(t, s)

\* The marker test left out: the instruction is appended every time
WithThinking_Unchecked(messages, i) ==
  [messages EXCEPT ![i] = WithContent(@, ContentOf(@) \o ThinkingInstruction)]

\* The body of the loop for the first system message, at index i
WithThinking(messages, i) ==
  IF Includes(ContentOf(messages[i]), <<THINKING_TAG>>) THEN messages
  ELSE [messages EXCEPT ![i] = WithContent(@, ContentOf(@) \o ThinkingInstruction)]

\* addThinkingPromptToMessages(messages)
AddThinkingPromptToMessages(messages) ==
  IF HasSystem(messages)
  THEN WithThinking(messages, Least({i \in DOMAIN messages : messages[i].role = "system"}))
  ELSE <<[role |-> "system", content |-> JStr(<<THINKING_PERSONA>> \o ThinkingInstruction)]>>
         \o messages

\* processMessagesWithThinking(messages, tools, toolChoice, enableThinking)
ProcessMessagesWithThinking(cfg, messages, tools, toolChoice, enableThinking) ==
  IF enableThinking
  THEN AddThinkingPromptToMessages(ProcessMessagesWithTools(cfg, messages, tools, toolChoice))
  ELSE ProcessMessagesWithTools(cfg, messages, tools, toolChoice)

(***************************************************************************)
(* Calls of the message preprocessor.                                      *)
(***************************************************************************)
MaxMessages == 2       \* messages of a list handed to the preprocessor
MaxApplications == 2   \* lists the preprocessor returns, one from the other

TextPart(chars) ==
  JObj(<< <<K("type"), JStr(K("text"))>>, <<K("text"), JStr(chars)>> >>)

ImagePart == JObj(<< <<K("type"), JStr(K("image_url"))>> >>)

\* The messages a client may send: contents that are strings, lists of parts,
\* or missing; system messages with and without the thinking marker
MessageKinds ==
  {[role |-> "system", content |-> JStr(<<"Be", " ", "brief">>)],
   [role |-> "system", content |-> JStr(<<"Use", " ", THINKING_TAG>>)],
   [role |-> "system", content |-> JArr(<<TextPart(<<"Be">>), ImagePart, JStr(<<"brief">>)>>)],
   [role |-> "system"],
   [role |-> "user", content |-> JStr(<<"hi">>)],
   [role |-> "user", content |-> JArr(<<TextPart(<<"hi">>), TextPart(<<THINKING_TAG>>)>>)],
   [role |-> "assistant", content |-> JStr(<<"ok">>), reasoning_content |-> "hm"],
   [role |-> "tool", name |-> "get_weather", content |-> JStr(<<"42">>)],
   [role |-> "function", content |-> JArr(<<ImagePart>>)]}

MessageLists == UNION {[1..n -> MessageKinds] : n \in 0..MaxMessages}

WeatherTool ==
  [type |-> "function",
   function |-> [name |-> "get_weather", description |-> "weather of a city",
                 parameters |-> [properties |-> <<[name |-> "city", type |-> "string"]>>,
                                 required |-> {"city"}]]]

\* tools: undefined, or a list: empty, of a function, of what is no function
ToolLists ==
  {Undefined, JArr(<<>>), JArr(<<WeatherTool>>), JArr(<<[type |-> "retrieval"]>>)}

\* toolChoice: absent, a word, or an object that names a function or none
ToolChoices ==
  {Undefined, JStr(<<"none">>), JStr(<<"auto">>), JStr(<<"required">>),
   JObj(<< <<K("type"), JStr(K("function"))>>,
           <<K("function"), JObj(<< <<K("name"), JStr(<<"get_weather">>)>> >>)>> >>),
   JObj(<< <<K("type"), JStr(K("function"))>> >>)}

InitMessages ==
  /\ now \in {UPDATE_INTERVAL}
  /\ NewManager
  /\ call = Idle
  /\ config \in {c \in Configs : ~c.SKIP_AUTH_TOKEN /\ c.SCAN_LIMIT = ServerConfig.SCAN_LIMIT}
  /\ sample = <<>>
  /\ extraction = <<>>
  /\ incoming \in [messages : MessageLists, tools : ToolLists, toolChoice : ToolChoices]
  /\ outgoing = <<>>
  /\ NoLoop
  /\ NoRequests

Returned(by, list) == [by |-> by, messages |-> list]

\* processMessagesWithTools(messages, tools, toolChoice)
ProcessTools ==
  /\ outgoing = <<>>
  /\ outgoing' = <<Returned("processMessagesWithTools",
                            ProcessMessagesWithTools(config, incoming.messages,
                                                     incoming.tools, incoming.toolChoice))>>
  /\ UNCHANGED <<now, cacheVars, call, config, sample, extraction, incoming, loop, serverVars>>

\* processMessagesWithThinking(messages, tools, toolChoice, enableThinking)
ProcessThinking(enableThinking) ==
  /\ outgoing = <<>>
  /\ outgoing' = <<Returned("processMessagesWithThinking",
                            ProcessMessagesWithThinking(config, incoming.messages,
                                                        incoming.tools, incoming.toolChoice,
                                                        enableThinking))>>
  /\ UNCHANGED <<now, cacheVars, call, config, sample, extraction, incoming, loop, serverVars>>

\* addThinkingPromptToMessages, called with the messages of the client or
\* with the list the preprocessor returned last
AddThinking ==
  /\ Len(outgoing) < MaxApplications
  /\ outgoing' = Append(outgoing,
                        Returned("addThinkingPromptToMessages",
                                 AddThinkingPromptToMessages(
                                   IF outgoing = <<>> THEN incoming.messages
                                   ELSE outgoing[Len(outgoing)].messages)))
  /\ UNCHANGED <<now, cacheVars, call, config, sample, extraction, incoming, loop, serverVars>>

NextMessages ==
  \/ ProcessTools
  \/ \E enableThinking \in BOOLEAN : ProcessThinking(enableThinking)
  \/ AddThinking

SpecMessages == InitMessages /\ [][NextMessages]_vars

(***************************************************************************)
(* Claims about the message preprocessor.                                  *)
(***************************************************************************)
\* How often the text t stands in the text s
Occurrences(t, s) ==
  Cardinality({k \in 0..(Len(s) - Len(t)) : SubSeq(s, k + 1, k + Len(t)) = t})

RECURSIVE Sum(_)
Sum(counts) == IF counts = <<>> THEN 0 ELSE Head(counts) + Sum(Tail(counts))

\* How often the thinking instruction stands in the contents of a list
InstructionBlocks(list) ==
  Sum([i \in DOMAIN list |-> Occurrences(ThinkingInstruction, ContentOf(list[i]))])

\* The list that the i-th call was given
GivenTo(i) == IF i = 1 THEN incoming.messages ELSE outgoing[i - 1].messages

\* C15: addThinkingPromptToMessages applied to its own result returns that
\* result, whatever list the first application was given (no system message,
\* one, several, the marker present or not), and its result holds the
\* thinking instruction at most once.
C15_ThinkingPromptIdempotent ==
  \A i \in DOMAIN outgoing :
    outgoing[i].by = "addThinkingPromptToMessages" =>
      /\ InstructionBlocks(outgoing[i].messages) <= 1
      /\ (i > 1 /\ outgoing[i - 1].by = "addThinkingPromptToMessages")
           => outgoing[i].messages = outgoing[i - 1].messages

\* Applied twice to two system messages, the first without the marker
C15_Witness ==
  /\ Len(outgoing) = 2
  /\ outgoing[1].by = "addThinkingPromptToMessages"
  /\ outgoing[2].by = "addThinkingPromptToMessages"
  /\ Len(incoming.messages) = 2
  /\ \A i \in 1..2 : incoming.messages[i].role = "system"
  /\ ~Includes(ContentOf(incoming.messages[1]), <<THINKING_TAG>>)
  /\ outgoing[1].messages # incoming.messages
  /\ InstructionBlocks(outgoing[2].messages) = 1

\* The call of processMessagesWithTools is one that the claim has pass through
PassThroughCase ==
  \/ incoming.tools = Undefined
  \/ incoming.tools = JArr(<<>>)
  \/ ~config.TOOL_SUPPORT
  \/ incoming.toolChoice = JStr(<<"none">>)

NormalizedRole(role) == IF role \in {"tool", "function"} THEN "assistant" ELSE role

\* C16: with tools absent or empty, or TOOL_SUPPORT off, or toolChoice "none",
\* processMessagesWithTools returns a list of the length, order and roles of
\* its input, tool and function roles normalized, with no system message
\* added and nothing appended to the content of any message.
C16_PassThroughWithoutTools ==
  (outgoing # <<>> /\ outgoing[1].by = "processMessagesWithTools" /\ PassThroughCase) =>
    LET given == incoming.messages
        out == outgoing[1].messages
    IN  /\ Len(out) = Len(given)
        /\ \A i \in DOMAIN given :
             /\ out[i].role = NormalizedRole(given[i].role)
             /\ given[i].role \notin {"tool", "function"}
                  => out[i].content = JStr(ContentOf(given[i]))

\* What FUNCTION_CALL_PATTERN takes of the arguments of a phrase: the text up
\* to the first "}"
MatchedArguments(arguments) ==
  SubSeq(arguments, 1, Least({i \in DOMAIN arguments : arguments[i] = "}"}))

\* The sample holds the phrase, within the scanned prefix, with arguments
\* that parse, and nothing fenced or inline
PhraseWithJsonArguments ==
  /\ sample.layout.wrap = "natural"
  /\ sample.count >= 1
  /\ JSONParse(MatchedArguments(sample.arguments)).ok
  /\ Len(sample.text) - Len(sample.layout.post) <= config.SCAN_LIMIT

\* C17: for a text without fenced or inline tool_calls JSON that holds the
\* phrase "call function: <name> arguments: <json>" with <json> valid JSON,
\* extractToolInvocations returns exactly one tool call, of type "function",
\* with a generated id, the name <name> and the arguments text <json>.
C17_NaturalLanguageCall ==
  (Extracted /\ PhraseWithJsonArguments) =>
    /\ extraction[1].kind = "calls"
    /\ Len(extraction[1].calls) = 1
    /\ Prop(extraction[1].calls[1], K("type")) = JStr(K("function"))
    /\ Prop(extraction[1].calls[1], K("id")).type = "string"
    /\ Prop(Prop(extraction[1].calls[1], K("function")), K("name")) = JStr(sample.name)
    /\ ArgumentsOf(extraction[1].calls[1]) = JStr(MatchedArguments(sample.arguments))

\* The sample holds two candidates and lies within the scanned prefix
TwoCandidatesScanned ==
  /\ sample.layout.wrap = "mixed"
  /\ Len(sample.text) <= config.SCAN_LIMIT

HoldsArray(piece) == ToolCallsOf(piece.doc).type = "array"

FunctionName(entry) == Prop(Prop(entry, K("function")), K("name"))

\* The list returned is the tool_calls array of the piece, entry for entry
ReturnsArrayOf(piece) ==
  /\ extraction[1].kind = "calls"
  /\ Len(extraction[1].calls) = Len(ToolCallsOf(piece.doc).items)
  /\ \A i \in DOMAIN extraction[1].calls :
       FunctionName(extraction[1].calls[i])
         = FunctionName(ToolCallsOf(piece.doc).items[i])

\* The first of the sample's pieces that is in S
FirstOf(S) == sample.pieces[Least({i \in DOMAIN sample.pieces : sample.pieces[i] \in S})]

FencedArrays == {p \in Range(sample.pieces) : p.kind = "fenced" /\ HoldsArray(p)}

InlineArrays == {p \in Range(sample.pieces) : p.kind = "inline" /\ HoldsArray(p)}

\* The outcome is that of the first strategy, in the order fenced block,
\* brace scan, phrase, that found a list
FirstStrategyDecides ==
  LET Decides(fenced, inline) ==
        /\ fenced.kind = "calls" => extraction[1] = fenced
        /\ (fenced.kind # "calls" /\ inline.kind = "calls") => extraction[1] = inline
        /\ extraction[1].kind = "throw" => (fenced = NotFound /\ inline = NotFound)
  IN  Decides(FromJsonBlocks(FenceMatches(sample.text, 1)), FromInlineObjects(sample.text))

\* C18 as stated: the strategies are tried in the order fenced block, brace
\* scan, phrase, and the first that finds a list decides; a fenced block with
\* a tool_calls array is returned even after an inline tool_calls object or a
\* phrase, and an inline tool_calls object is returned whatever phrase the
\* text holds.
C18_FirstSuccessWins ==
  (Extracted /\ TwoCandidatesScanned) =>
    /\ FirstStrategyDecides
    /\ FencedArrays # {} => ReturnsArrayOf(FirstOf(FencedArrays))
    /\ (FencedArrays = {} /\ InlineArrays # {}) => ReturnsArrayOf(FirstOf(InlineArrays))

\* The fenced pattern takes the whole object of the piece, and no entry of
\* its array is null: the fenced strategy returns it
FencedAccepted(piece) ==
  /\ piece.kind = "fenced" /\ HoldsArray(piece) /\ ~HasNullEntry(piece.doc)
  /\ FenceMatchAt(piece.text, 1).end > Len(piece.text)

\* The brace scan returns the object of the piece, fenced or not
ScanAccepted(piece) == piece.kind # "phrase" /\ HoldsArray(piece) /\ ~HasNullEntry(piece.doc)

AcceptedFenced == {p \in Range(sample.pieces) : FencedAccepted(p)}

AcceptedByScan == {p \in Range(sample.pieces) : ScanAccepted(p)}

\* C18 amended: the same order, for the candidates a strategy accepts: a
\* fenced block whose array has no null entry and whose object the fenced
\* pattern takes whole is returned before anything inline or phrased; with no
\* such block, the first object with a tool_calls array without null entry,
\* inside a fence or not, is returned whatever phrase the text holds.
C18_FirstAcceptedCandidateWins ==
  (Extracted /\ TwoCandidatesScanned) =>
    /\ FirstStrategyDecides
    /\ AcceptedFenced # {} => ReturnsArrayOf(FirstOf(AcceptedFenced))
    /\ (AcceptedFenced = {} /\ AcceptedByScan # {}) => ReturnsArrayOf(FirstOf(AcceptedByScan))

\* An inline call of g stands before the fenced call of f, which is returned
C18_Witness ==
  /\ Extracted /\ TwoCandidatesScanned
  /\ sample.pieces[1].kind = "inline"
  /\ sample.pieces[1].doc \in MixedDocs
  /\ sample.pieces[1].doc # sample.pieces[2].doc
  /\ ScanAccepted(sample.pieces[1])
  /\ ToolCallsOf(sample.pieces[1].doc).items # <<>>
  /\ sample.pieces[2].kind = "fenced"
  /\ sample.pieces[2].doc
       = JObj(<< <<K("tool_calls"), JArr(<<ToolCall(ObjectArguments)>>)>> >>)
  /\ extraction[1] = Calls(<<ToolCall(JStr(EncodedArguments))>>)

(***************************************************************************)
(* The brace scan on its own: texts over "{", "}", the quote, the          *)
(* backslash and an ordinary character, scanned from a "{" at their start. *)
(***************************************************************************)
MaxScanLen == 6   \* characters after the opening "{" of a scanned text

ScanChars == {"{", "}", "\"", "\\", "x"}

ScanSamples ==
  {[text |-> <<"{">> \o rest] : rest \in UNION {[1..n -> ScanChars] : n \in 0..MaxScanLen}}

InitScan ==
  /\ now \in {UPDATE_INTERVAL}
  /\ NewManager
  /\ call = Idle
  /\ config = ServerConfig
  /\ sample \in ScanSamples
  /\ extraction = <<>>
  /\ NoMessages
  /\ NoLoop
  /\ NoRequests

\* The inner while of either function, run from the "{" at the start
Scan ==
  /\ extraction = <<>>
  /\ extraction' = <<[kind |-> "scan", scan |-> ScanFrom(sample.text, 1)]>>
  /\ UNCHANGED <<now, dynamicMappings, lastUpdateTime, call, config, sample, messageVars,
                 loop, serverVars>>

NextScan == Scan

SpecScan == InitScan /\ [][NextScan]_vars

(***************************************************************************)
(* Claims about the brace scan.                                            *)
(***************************************************************************)
\* The reference scanner: outside a string, inside a string, inside a string
\* after a backslash; and the depth
ReferenceStep(st, c) ==
  CASE st.state = "outside-string" ->
         IF c = "{" THEN [st EXCEPT !.depth = @ + 1]
         ELSE IF c = "}" THEN [st EXCEPT !.depth = @ - 1]
         ELSE IF c = "\"" THEN [st EXCEPT !.state = "inside-string"]
         ELSE st
    [] st.state = "inside-string" ->
         IF c = "\\" THEN [st EXCEPT !.state = "inside-string-after-escape"]
         ELSE IF c = "\"" THEN [st EXCEPT !.state = "outside-string"]
         ELSE st
    [] st.state = "inside-string-after-escape" -> [st EXCEPT !.state = "inside-string"]

\* The reference scanner over s from position j on, until the depth is zero
RECURSIVE ReferenceScan(_, _, _)
ReferenceScan(s, j, st) ==
  IF j > Len(s) \/ st.depth = 0 THEN [end |-> j, depth |-> st.depth, state |-> st.state]
  ELSE ReferenceScan(s, j + 1, ReferenceStep(st, s[j]))

Reference == ReferenceScan(sample.text, 2, [state |-> "outside-string", depth |-> 1])

Scanned == extraction # <<>> /\ extraction[1].kind = "scan"

\* The scan and the reference scanner end at the same position with the same
\* depth: they find the same candidate, or both none
SameCandidate ==
  /\ extraction[1].scan.j = Reference.end
  /\ extraction[1].scan.braceCount = Reference.depth

\* C19 as stated: on every text over "{", "}", the quote, the backslash and
\* an ordinary character, the brace scan ends where the reference scanner
\* with three states and a depth counter ends.
C19_ScanMatchesReference == Scanned => SameCandidate

\* The reference scanner reads a backslash of s outside a string, from j on
RECURSIVE BackslashOutside(_, _, _)
BackslashOutside(s, j, st) ==
  IF j > Len(s) \/ st.depth = 0 THEN FALSE
  ELSE \/ (st.state = "outside-string" /\ s[j] = "\\")
       \/ BackslashOutside(s, j + 1, ReferenceStep(st, s[j]))

\* C19 amended: the same, for the texts in which no backslash stands outside
\* a string literal before the candidate ends.
C19_ScanMatchesReferenceInJson ==
  (Scanned /\ ~BackslashOutside(sample.text, 2, [state |-> "outside-string", depth |-> 1]))
    => SameCandidate

\* The text {"\"}"}: an escaped quote and a brace inside a string
C19_Witness ==
  /\ Scanned
  /\ sample.text = <<"{", "\"", "\\", "\"", "}", "\"", "}">>
  /\ extraction[1].scan.braceCount = 0
  /\ extraction[1].scan.j = 8
  /\ SameCandidate

\* C20: removeToolJsonContent returns its text without the tool-call object
\* and trimmed, and nothing else is dropped or changed: an object without a
\* tool_calls key at its top level stands in the output character for
\* character, also one that holds an object with a tool_calls key.
C20_OtherJsonUntouched ==
  Stripped =>
    /\ Occurs(sample.before.text, extraction[1].text)
    /\ Occurs(sample.after.text, extraction[1].text)
    /\ extraction[1].text
         = Trim(Without(IF FenceOutlivesObject THEN Fenced(<<>>) ELSE <<>>))

\* The call of processMessagesWithTools is one with tool injection active
InjectionCase ==
  /\ outgoing # <<>> /\ outgoing[1].by = "processMessagesWithTools"
  /\ InjectionActive(config, incoming.tools, incoming.toolChoice)

\* The tool catalog of the call
Catalog == GenerateToolPrompt(incoming.tools)

\* The directive the call may append to the last message
Directive == ToolChoiceHint(incoming.toolChoice)

\* How often the text t stands in the contents of a list
OccurrencesIn(t, list) ==
  Sum([i \in DOMAIN list |-> Occurrences(t, ContentOf(list[i]))])

\* The content of the i-th given message in the output, the catalog and the
\* directive apart
KeepsContent(given, out, i, at) ==
  \/ given[i].role \in {"tool", "function"}
  \/ out[at].content = JStr(ContentOf(given[i]))
  \/ /\ i = Len(given)
     /\ out[at].content = JStr(ContentOf(given[i]) \o Directive)

\* C21: with tool injection active, a list with a system message comes back
\* with its length, the catalog at the end of the content of the system
\* message and every other message with its content, the directive apart; a
\* list without one comes back behind one new system message that holds the
\* default persona and the catalog.  Either way the catalog stands exactly
\* once in the returned list.
C21_CatalogInjectedOnce ==
  InjectionCase =>
    LET given == incoming.messages
        out == outgoing[1].messages
        first == Least({i \in DOMAIN given : given[i].role = "system"})
    IN  /\ HasSystem(given) =>
             /\ Len(out) = Len(given)
             /\ out[first].content = JStr(ContentOf(given[first]) \o Catalog)
             /\ \A i \in DOMAIN given :
                  given[i].role # "system" => KeepsContent(given, out, i, i)
        /\ ~HasSystem(given) =>
             /\ Len(out) = Len(given) + 1
             /\ out[1] = [role |-> "system",
                          content |-> JStr(<<DEFAULT_PERSONA>> \o Catalog)]
             /\ \A i \in DOMAIN given :
                  /\ out[i + 1].role = NormalizedRole(given[i].role)
                  /\ KeepsContent(given, out, i, i + 1)
        /\ Catalog # <<>> => OccurrencesIn(Catalog, out) = 1

\* The directive for "required" and "auto", and the one that names a function
GenericDirective == <<"\n", "\n", USE_TOOLS_HINT>>

NamedDirective(name) ==
  <<"\n", "\n", "please-use-zh">> \o name \o <<"function-for-this-request-zh">>

\* toolChoice is an object that names a function
NamesFunction(toolChoice) ==
  /\ toolChoice.type = "object"
  /\ Prop(toolChoice, K("type")) = JStr(K("function"))
  /\ Prop(Prop(toolChoice, K("function")), K("name")).type = "string"
  /\ Prop(Prop(toolChoice, K("function")), K("name")).s # <<>>

\* The directive the claim expects for a toolChoice, none where it is <<>>
ExpectedDirective(toolChoice) ==
  IF toolChoice \in {JStr(<<"required">>), JStr(<<"auto">>)} THEN GenericDirective
  ELSE IF NamesFunction(toolChoice)
  THEN NamedDirective(Prop(Prop(toolChoice, K("function")), K("name")).s)
  ELSE <<>>

\* How many directives stand in the contents of a list
Directives(list) ==
  OccurrencesIn(<<USE_TOOLS_HINT>>, list) + OccurrencesIn(<<"please-use-zh">>, list)

LastIsUser(list) == list # <<>> /\ list[Len(list)].role = "user"

\* C22: with tool injection active, the last message of the returned list ends
\* with the directive of the toolChoice (the generic one for "required" and
\* "auto", the naming one for an object that names a function) and no other
\* directive stands in the list, if the toolChoice has a directive and the
\* last given message is the user's; otherwise no message holds a directive.
C22_DirectiveOnLastUserOnly ==
  InjectionCase =>
    LET given == incoming.messages
        out == outgoing[1].messages
        expected == ExpectedDirective(incoming.toolChoice)
    IN  IF expected # <<>> /\ LastIsUser(given)
        THEN /\ out[Len(out)].content = JStr(ContentOf(given[Len(given)]) \o expected)
             /\ Directives(out) = 1
        ELSE Directives(out) = 0

\* A system message and a user message, and a toolChoice that names a
\* function: the user message ends with the directive that names it
C22_Witness ==
  /\ InjectionCase
  /\ NamesFunction(incoming.toolChoice)
  /\ Len(incoming.messages) = 2
  /\ incoming.messages[1].role = "system"
  /\ LastIsUser(incoming.messages)
  /\ outgoing[1].messages[2].content
       = JStr(ContentOf(incoming.messages[2]) \o NamedDirective(<<"get_weather">>))
  /\ Directives(outgoing[1].messages) = 1

\* The first call was one of the two preprocessors that take tools
PreprocessorCase ==
  /\ outgoing # <<>>
  /\ outgoing[1].by \in {"processMessagesWithTools", "processMessagesWithThinking"}

\* C23: the list processMessagesWithTools or processMessagesWithThinking
\* returns holds no message of role "tool" or "function": the given messages
\* stand in it in their order, behind at most one new system message, each
\* tool or function message as one assistant message and every other message
\* with its role, and the content of every returned message is a string.
C23_NoToolRoleStringContent ==
  PreprocessorCase =>
    LET given == incoming.messages
        out == outgoing[1].messages
        added == Len(out) - Len(given)
    IN  /\ added \in {0, 1}
        /\ added = 1 => out[1].role = "system"
        /\ \A i \in DOMAIN given : out[i + added].role = NormalizedRole(given[i].role)
        /\ \A k \in DOMAIN out :
             /\ out[k].role \notin {"tool", "function"}
             /\ "content" \in DOMAIN out[k]
             /\ out[k].content.type = "string"

\* A user message of two parts and a tool message, no system message, thinking
\* enabled: three messages come back, the third an assistant message
C23_Witness ==
  /\ PreprocessorCase
  /\ outgoing[1].by = "processMessagesWithThinking"
  /\ Len(incoming.messages) = 2
  /\ incoming.messages[1].role = "user" /\ incoming.messages[1].content.type = "array"
  /\ incoming.messages[2].role = "tool"
  /\ Len(outgoing[1].messages) = 3
  /\ InstructionBlocks(outgoing[1].messages) = 1
  /\ outgoing[1].messages[2].content = JStr(<<"hi", " ", THINKING_TAG>>)
  /\ outgoing[1].messages[3].role = "assistant"

\* The "tool executed" placeholder for a tool or function message
Placeholder(m) ==
  <<TOOL_ZH, " ", IF "name" \in DOMAIN m /\ m.name # "" THEN m.name ELSE "unknown", " ",
    EXECUTED_ZH>>

\* C24: a tool or function message whose content coerces to the empty string
\* comes back as an assistant message whose content is the "tool executed"
\* placeholder, not the result block around an empty body.
C24_EmptyToolResultPlaceholder ==
  PreprocessorCase =>
    LET given == incoming.messages
        out == outgoing[1].messages
        added == Len(out) - Len(given)
    IN  \A i \in DOMAIN given :
          (given[i].role \in {"tool", "function"} /\ ContentOf(given[i]) = <<>>)
            => out[i + added].content = JStr(Placeholder(given[i]))

\* The step of the request throws into the outer catch: the schema rejects
\* the body, or the resolved configuration has no features to read
ThrowsToOuterCatch(req, dyn) ==
  /\ req.pc = "body"
  /\ \/ ~SchemaAccepts(req.body)
     \/ /\ GetUpstreamConfig(dyn, req.body.model) # Null
        /\ "features" \notin DOMAIN GetUpstreamConfig(dyn, req.body.model)

BlockObject == Stringify(sample.block.doc, sample.block.sp)

\* extractToolInvocations finds no tool call in the sample's text
ExtractionRejects ==
  ExtractToolInvocations(sample.text, config.SCAN_LIMIT).kind # "calls"

\* C26: removeToolJsonContent removes an object only if extractToolInvocations
\* accepts it: where the extraction returns no tool calls for a text (the
\* tool_calls value is no array, or the object lies beyond the scanned
\* prefix), the object still stands in the stripped text.
C26_StripsOnlyWhatExtractionAccepts ==
  (Stripped /\ sample.block.kind # "none" /\ ExtractionRejects)
    => Occurs(BlockObject, extraction[1].text)

(***************************************************************************)
(* The character scans of extractToolInvocations (attempt 2) and of         *)
(* removeToolJsonContent (step 2), one turn of a while loop per step.  The *)
(* positions count from 1: i and j are the code's i + 1 and j + 1.         *)
(***************************************************************************)
MaxLoopLen == 3   \* characters after the opening "{" of a short scanned text

\* Texts with a tool-call object that the scans accept, skip or pass by
LoopDocs ==
  {<<"Sure", ".", "\n">> \o Stringify(JObj(<< <<K("tool_calls"), JArr(<<>>)>> >>), <<>>)
     \o <<"{", "a", "}">>,
   Stringify(NestedDoc, <<>>) \o <<"{">>,
   EncodedArguments
     \o Fenced(Stringify(
          JObj(<< <<K("tool_calls"), JArr(<<ToolCall(JStr(<<"}", FENCE>>))>>)>> >>), <<>>)),
   <<"x">>,
   <<>>}

\* Every short text over the characters of the scan, after a "{", and the
\* texts with a tool-call object
LoopSamples ==
  {[text |-> <<"{">> \o rest] :
     rest \in UNION {[1..n -> ScanChars] : n \in 0..MaxLoopLen}}
    \cup {[text |-> t] : t \in LoopDocs}

InitLoop ==
  /\ now \in {UPDATE_INTERVAL}
  /\ NewManager
  /\ call = Idle
  /\ config \in {c \in Configs : c.TOOL_SUPPORT /\ ~c.SKIP_AUTH_TOKEN}
  /\ sample \in LoopSamples
  /\ extraction = <<>>
  /\ NoMessages
  /\ NoLoop
  /\ NoRequests

\* The text the while loops of a function run over: scannableText, or
\* cleanedText
LoopText(fn, text, scanLimit) ==
  IF fn = "extractToolInvocations" THEN SubSeq(text, 1, Min(scanLimit, Len(text)))
  ELSE ReplaceFenced(text, 1)

\* Attempt 2 is reached: the text is not empty and attempt 1 has not returned
ReachesLoop(fn, text, scanLimit) ==
  fn = "extractToolInvocations" =>
    /\ text # <<>>
    /\ FromJsonBlocks(FenceMatches(LoopText(fn, text, scanLimit), 1)).kind # "calls"

\* What the try block at the end of a turn makes of the text from a to b - 1:
\* the extraction returns its tool calls, the removal skips it
TakesSpan(fn, text, a, b) ==
  IF fn = "extractToolInvocations"
  THEN TryToolCalls(SubSeq(text, a, b - 1)).kind = "calls"
  ELSE InToolCalls(JSONParse(SubSeq(text, a, b - 1)))

\* The candidates that the function takes.  JSON.parse depends on the text
\* alone, so what it makes of each text between a "{" and a "}" is settled
\* when the loop is entered; a turn reads it when its inner while has ended.
TakenSpans(fn, text) ==
  {span \in {<<a, b>> \in (1..Len(text)) \X (2..(Len(text) + 1)) :
               a < b /\ text[a] = "{" /\ text[b - 1] = "}"} :
     TakesSpan(fn, text, span[1], span[2])}

\* "let i = 0" (and "const result = []")
EnterLoop(fn) ==
  /\ loop = <<>>
  /\ ReachesLoop(fn, sample.text, config.SCAN_LIMIT)
  /\ loop' = [fn |-> fn, text |-> LoopText(fn, sample.text, config.SCAN_LIMIT),
              taken |-> TakenSpans(fn, LoopText(fn, sample.text, config.SCAN_LIMIT)),
              pc |-> "outer", i |-> 1, result |-> <<>>,
              j |-> 0, braceCount |-> 0, inString |-> FALSE, escapeNext |-> FALSE]
  /\ UNCHANGED <<now, cacheVars, call, config, sample, extraction, messageVars, serverVars>>

\* result.push(cleanedText[i]), which only removeToolJsonContent has
Pushed(l) ==
  IF l.fn = "removeToolJsonContent" THEN Append(l.result, l.text[l.i]) ELSE l.result

\* A turn of the outer while at a character that is no "{", or the start of
\* a turn at a "{": the locals of the inner while are set
OuterTurn ==
  /\ loop # <<>> /\ loop.pc = "outer" /\ loop.i <= Len(loop.text)
  /\ loop' = IF loop.text[loop.i] = "{"
             THEN [loop EXCEPT !.pc = "inner", !.j = loop.i + 1, !.braceCount = 1,
                               !.inString = FALSE, !.escapeNext = FALSE]
             ELSE [loop EXCEPT !.i = @ + 1, !.result = Pushed(loop)]
  /\ UNCHANGED <<now, cacheVars, call, config, sample, extraction, messageVars, serverVars>>

\* A turn of the inner while
InnerTurn ==
  /\ loop # <<>> /\ loop.pc = "inner"
  /\ loop.j <= Len(loop.text) /\ loop.braceCount > 0
  /\ LET st == ScanStep([braceCount |-> loop.braceCount, inString |-> loop.inString,
                         escapeNext |-> loop.escapeNext], loop.text[loop.j])
     IN  loop' = [loop EXCEPT !.j = @ + 1, !.braceCount = st.braceCount,
                              !.inString = st.inString, !.escapeNext = st.escapeNext]
  /\ UNCHANGED <<now, cacheVars, call, config, sample, extraction, messageVars, serverVars>>

\* The candidate of a turn whose inner while has ended is one the function
\* takes: the extraction returns its tool calls, the removal skips it
Takes(l) == l.braceCount = 0 /\ <<l.i, l.j>> \in l.taken

\* The outer index is left where it stands when a candidate is passed by
NextIndex_Stuck(l) == IF Takes(l) THEN l.j ELSE l.i

\* "i = j; continue" of the removal, and "i++"
NextIndex(l) == IF Takes(l) THEN l.j ELSE l.i + 1

\* The end of a turn at a "{", after the inner while: the extraction returns
\* the tool calls of its candidate, the removal skips its candidate, and a
\* candidate that is not taken is passed by
EndTurn ==
  /\ loop # <<>> /\ loop.pc = "inner"
  /\ ~(loop.j <= Len(loop.text) /\ loop.braceCount > 0)
  /\ loop' = IF Takes(loop) /\ loop.fn = "extractToolInvocations"
             THEN [loop EXCEPT !.pc = "returned"]
             ELSE [loop EXCEPT !.pc = "outer", !.i = NextIndex(loop),
                               !.result = IF Takes(loop) THEN @ ELSE Pushed(loop)]
  /\ UNCHANGED <<now, cacheVars, call, config, sample, extraction, messageVars, serverVars>>

\* The outer while ends: i has reached the length of the text
LeaveLoop ==
  /\ loop # <<>> /\ loop.pc = "outer" /\ loop.i > Len(loop.text)
  /\ loop' = [loop EXCEPT !.pc = "left"]
  /\ UNCHANGED <<now, cacheVars, call, config, sample, extraction, messageVars, serverVars>>

NextLoop ==
  \/ \E fn \in {"extractToolInvocations", "removeToolJsonContent"} : EnterLoop(fn)
  \/ OuterTurn
  \/ InnerTurn
  \/ EndTurn
  \/ LeaveLoop

SpecLoop == InitLoop /\ [][NextLoop]_vars

\* The loops run on: a function that has entered its loop takes its turns
FairLoop == SpecLoop /\ WF_vars(OuterTurn \/ InnerTurn \/ EndTurn \/ LeaveLoop)

(***************************************************************************)
(* Claims about the character scans.                                       *)
(***************************************************************************)
LoopOver == loop # <<>> /\ loop.pc \in {"returned", "left"}

\* What a step of a scan does to its indices: a turn of the outer while, at
\* its end, has raised i; the start of a turn at a "{" leaves i and sets j
\* behind it; a turn of the inner while, taken only before the end of the
\* text and above depth zero, raises j by one and leaves i
IndicesAdvance ==
  /\ (loop.pc \in {"outer", "inner"} /\ loop'.pc = "outer") => loop'.i > loop.i
  /\ (loop.pc = "outer" /\ loop'.pc = "inner") =>
       loop'.i = loop.i /\ loop'.j = loop.i + 1
  /\ (loop.pc = "inner" /\ loop'.pc = "inner") =>
       /\ loop.j <= Len(loop.text) /\ loop.braceCount > 0
       /\ loop'.j = loop.j + 1 /\ loop'.i = loop.i
  /\ loop'.i <= Len(loop.text) + 1
  /\ loop'.j <= Len(loop.text) + 1

\* C27: the scans of extractToolInvocations and removeToolJsonContent end on
\* every text: each turn of the outer while raises the outer index, also when
\* its candidate does not balance or does not parse and when a tool-call
\* object is skipped, each turn of the inner while raises the inner index,
\* and a scan that was entered returns or leaves its loop.
C27_ScansTerminate ==
  /\ [][(loop # <<>> /\ loop' # loop) => IndicesAdvance]_vars
  /\ (loop # <<>>) ~> LoopOver

\* The removal has left its loop on a text with an object it passed by, an
\* object inside it that it skipped, and a "{" that nothing closes
C27_Witness ==
  /\ LoopOver
  /\ loop.fn = "removeToolJsonContent"
  /\ sample.text = Stringify(NestedDoc, <<>>) \o <<"{">>
  /\ loop.i = Len(sample.text) + 1
  /\ loop.result = <<"{", "\"", "a", "\"", ":", "}", "{">>

\* The ids that the discovery endpoint may list
DiscoveredIds == {m.id : m \in DiscoveredModels \ {Null}}

\* The step resolves the model of a chat request: it is not answered 400
ResolvesDiscovered(c) ==
  /\ chat[c].pc = "body" /\ chat'[c] # chat[c]
  /\ SchemaAccepts(chat[c].body)
  /\ chat[c].body.model \in DiscoveredIds
  /\ HasRecorded(chat'[c], "upstreamConfig")

\* C28: no step of a POST /chat/completions request changes dynamicMappings
\* or lastUpdateTime, whatever the request ends in; in a server that handles
\* chat requests and model listings the cache changes only in the refresh of
\* a listing; and a chat request whose model is a discovered id resolves
\* only if the id is a key of dynamicMappings, stored by a listing that has
\* refreshed before.
C28_ChatLeavesCache ==
  [][/\ chat' # chat => UNCHANGED cacheVars
     /\ cacheVars' # cacheVars => \E r \in ListingReqs : RefreshStep(r)
     /\ \A c \in ChatReqs :
          ResolvesDiscovered(c) =>
            /\ chat[c].body.model \in KeySet(dynamicMappings)
            /\ \E r \in ListingReqs : models[r].pc \in {"listed", "done"}]_vars

\* A chat request for a discovered model has been answered 200 after a
\* listing stored the model
C28_Witness ==
  \E c \in ChatReqs :
    /\ chat[c].pc = "done"
    /\ HasRecorded(chat[c], "request")
    /\ chat[c].trace.request.model = "glm-x"
    /\ chat[c].response.status = 200
    /\ Len(chat[c].upstreamCalls) = 1
    /\ "glm-x" \in KeySet(dynamicMappings)
    /\ lastUpdateTime = now
    /\ \E r \in ListingReqs : models[r].pc \in {"listed", "done"}

====
